---- MODULE Spec2Model ----
(***************************************************************************)
(* Model of the article pipeline of src/q.py: the SQLite ledger of         *)
(* processed articles (init_processed_db, is_article_processed,            *)
(* mark_article_processed), the retry-bounded generation calls             *)
(* (rewrite_title_with_ai, rewrite_with_ai, generate_ai_tags,              *)
(* generate_contextual_alt_text, generate_additional_content) and main().  *)
(*                                                                         *)
(* Text is modelled as a sequence of symbols, one symbol per character     *)
(* (a Hangul syllable is written by its romanisation), so that counting,   *)
(* substring tests, stripping and slug making are computed, not assumed.   *)
(***************************************************************************)
EXTENDS Naturals, Integers, Sequences, FiniteSets, TLC

VARIABLES
    \* ---- persistent state: the files processed_articles.db and output/ ----
    dbExists,            \* the table processed_articles exists
    ledger,              \* rows of processed_articles: [url, title, hash]
    connOpen,            \* the last ledger call left its connection open
    files,               \* paths present in the output directory
    hasOpenAI,           \* HAS_OPENAI: the openai import succeeded (api_type
                         \* is "openai" in every call the repository makes)
    \* ---- a direct call of a ledger function (q.py used as a library) ----
    call,                \* the last call and what it gave back
    \* ---- one invocation of a generation function ----
    ai,                  \* the frame: function, arguments, attempt, result
    \* ---- main() ----
    pc,                  \* position of main()
    run,                 \* number of runs of main() started so far
    env,                 \* the run's environment: API key, Cloudflare token
    urls,                \* the URLs main() handles in this run
    i,                   \* index of the loop over urls
    article_data,        \* result of extract_content_from_url
    new_title,           \* result of rewrite_title_with_ai
    rewritten_content,   \* result of rewrite_with_ai
    processed, skipped, failed,
    generated_articles,  \* the run's artifact list
    exitCode,            \* "none" while running, 0 or 1 when the process ended
    hist                 \* history of the runs (an observer, not program state)

mainVars   == <<pc, run, env, urls, i, article_data, new_title, rewritten_content,
                processed, skipped, failed, generated_articles, exitCode, hist>>
vars == <<dbExists, ledger, connOpen, files, hasOpenAI, call, ai, pc, run, env,
          urls, i, article_data, new_title, rewritten_content, processed,
          skipped, failed, generated_articles, exitCode, hist>>

----------------------------------------------------------------------------
(* Bounds of the model *)

MaxRuns == 2

----------------------------------------------------------------------------
(* Symbols and text helpers *)

DQ == "\""
SQ == "'"
SP == " "
HY == "-"

RECURSIVE Count(_, _)
\* str.count(c) for a one-character c
Count(s, c) ==
    IF s = <<>> THEN 0
    ELSE (IF Head(s) = c THEN 1 ELSE 0) + Count(Tail(s), c)

\* sub in s for strings: sub occurs as a contiguous run of s
Contains(s, sub) ==
    \E k \in 0..(Len(s) - Len(sub)) :
        \A j \in 1..Len(sub) : s[k + j] = sub[j]

RECURSIVE LStrip(_, _)
LStrip(s, cs) ==
    IF s # <<>> /\ Head(s) \in cs THEN LStrip(Tail(s), cs) ELSE s

RECURSIVE RStrip(_, _)
RStrip(s, cs) ==
    IF s # <<>> /\ s[Len(s)] \in cs THEN RStrip(SubSeq(s, 1, Len(s) - 1), cs) ELSE s

\* str.strip(): leading and trailing whitespace removed
Strip(s) == RStrip(LStrip(s, {SP}), {SP})

\* s[:n]
Take(s, n) == SubSeq(s, 1, IF Len(s) < n THEN Len(s) ELSE n)

----------------------------------------------------------------------------
(* The ledger: table processed_articles, url TEXT UNIQUE *)

ENTRY == "/entry/"

Urls == {<<ENTRY, "1">>, <<ENTRY, "2">>}
LedgerTitles == {<<"a">>, <<"b">>}
Hashes == {"h1", "h2"}

Row(url, title, article_hash) ==
    [url |-> url, title |-> title, hash |-> article_hash]

\* SELECT COUNT(*) FROM processed_articles WHERE url = ?
UrlCount(rows, url) == Cardinality({r \in rows : r.url = url})

\* SELECT COUNT(*) FROM processed_articles WHERE hash = ?
HashCount(rows, article_hash) == Cardinality({r \in rows : r.hash = article_hash})

\* Mutant: a plain INSERT on a table without the UNIQUE constraint
InsertOnly(rows, url, title, article_hash) ==
    rows \cup {[url |-> url, title |-> title, hash |-> article_hash]}

\* INSERT OR REPLACE INTO processed_articles (url, title, hash): the UNIQUE
\* constraint on url deletes the conflicting row before the insert
InsertOrReplace(rows, url, title, article_hash) ==
    {r \in rows : r.url # url} \cup {Row(url, title, article_hash)}

\* Mutant: the URL check is dropped, only the hash is looked up
IsProcessedResultHashOnly(rows, url, title, article_hash) ==
    HashCount(rows, article_hash) > 0

\* Mutant: the hash check is dropped, only the URL is looked up
IsProcessedResultUrlOnly(rows, url, title, article_hash) ==
    UrlCount(rows, url) > 0

\* is_article_processed on an existing table: the URL check, then the hash check
IsProcessedResult(rows, url, title, article_hash) ==
    IF UrlCount(rows, url) > 0 THEN TRUE
    ELSE HashCount(rows, article_hash) > 0

NoCall == [op |-> "none"]

\* init_processed_db(): CREATE TABLE IF NOT EXISTS, commit, close
InitProcessedDb ==
    /\ pc = "idle" /\ ai.status # "running"
    /\ dbExists' = TRUE
    /\ ledger' = ledger
    /\ connOpen' = FALSE
    /\ call' = [op |-> "init_processed_db"]
    /\ UNCHANGED <<files, hasOpenAI, ai, mainVars>>

\* is_article_processed(url, title, article_hash).  A SELECT on a missing
\* table raises sqlite3.OperationalError, which the function does not catch:
\* the exception leaves it before conn.close(), and nothing is returned
\* (result stays FALSE, raised says so).
IsArticleProcessed ==
    /\ pc = "idle" /\ ai.status # "running"
    /\ \E url \in Urls, title \in LedgerTitles, article_hash \in Hashes :
        /\ call' = [op |-> "is_article_processed", url |-> url, title |-> title,
                    hash |-> article_hash,
                    raised |-> ~dbExists,
                    result |-> dbExists /\
                               IsProcessedResult(ledger, url, title, article_hash)]
        /\ connOpen' = ~dbExists
    /\ UNCHANGED <<dbExists, ledger, files, hasOpenAI, ai, mainVars>>

\* The write of mark_article_processed: execute, then commit.  fault is the
\* step that raises: the INSERT (also when the table is missing), the commit,
\* or none.  A change that was not committed is gone when the connection closes.
WriteFaults == {"none", "execute", "commit"}

MarkWrite(rows, tableExists, fault, url, title, article_hash) ==
    IF tableExists /\ fault = "none"
    THEN InsertOrReplace(rows, url, title, article_hash)
    ELSE rows

\* Mutant: conn.close() at the end of the try block instead of in finally
MarkOutcomeNoFinally(rows, tableExists, fault, url, title, article_hash) ==
    [rows     |-> MarkWrite(rows, tableExists, fault, url, title, article_hash),
     raised   |-> FALSE,
     connOpen |-> ~(tableExists /\ fault = "none"),
     failed   |-> ~(tableExists /\ fault = "none")]

\* What mark_article_processed leaves behind: except Exception swallows the
\* failed write, finally closes the connection.
MarkOutcome(rows, tableExists, fault, url, title, article_hash) ==
    [rows     |-> MarkWrite(rows, tableExists, fault, url, title, article_hash),
     raised   |-> FALSE,
     connOpen |-> FALSE,
     failed   |-> ~(tableExists /\ fault = "none")]

\* mark_article_processed(url, title, article_hash); existed notes whether
\* the URL had a row when the call was made
MarkArticleProcessed ==
    /\ pc = "idle" /\ ai.status # "running"
    /\ \E url \in Urls, title \in LedgerTitles, article_hash \in Hashes,
          fault \in WriteFaults :
        LET out == MarkOutcome(ledger, dbExists, fault, url, title, article_hash) IN
        /\ ledger' = out.rows
        /\ connOpen' = out.connOpen
        /\ call' = [op |-> "mark_article_processed", url |-> url, title |-> title,
                    hash |-> article_hash, raised |-> out.raised,
                    failed |-> out.failed,
                    existed |-> UrlCount(ledger, url) > 0]
    /\ UNCHANGED <<dbExists, files, hasOpenAI, ai, mainVars>>

----------------------------------------------------------------------------
(* get_article_hash, and the ledger used with it *)

\* hashlib.md5(content.encode()).hexdigest()[:8]: a function of the content,
\* taken to be free of collisions on the few contents of the model
Md5Hex8(content) == [md5 |-> content]

\* Mutant: title and URL are joined with a separator
get_article_hash_separated(title, url) == Md5Hex8(title \o <<"|">> \o url)

\* get_article_hash(title, url): content = f"{title}{url}"
get_article_hash(title, url) == Md5Hex8(title \o url)

\* Titles and URLs to fingerprint: the first two pairs differ in title and in
\* URL and have the same concatenation (the first title ends with the text
\* the second URL begins with); the third shares its URL with the first and
\* its title with the second
FingerprintPairs ==
    { [title |-> <<"t", ENTRY, "1">>, url |-> <<ENTRY, "2">>],
      [title |-> <<"t">>,             url |-> <<ENTRY, "1", ENTRY, "2">>],
      [title |-> <<"t">>,             url |-> <<ENTRY, "2">>],
      [title |-> <<"u">>,             url |-> <<ENTRY, "1">>] }

\* is_article_processed(url, title, get_article_hash(title, url))
IsFingerprintProcessed ==
    /\ pc = "idle" /\ ai.status # "running"
    /\ \E p \in FingerprintPairs :
        LET article_hash == get_article_hash(p.title, p.url) IN
        /\ call' = [op |-> "is_article_processed", url |-> p.url,
                    title |-> p.title, hash |-> article_hash,
                    raised |-> ~dbExists,
                    result |-> dbExists /\
                               IsProcessedResult(ledger, p.url, p.title,
                                                 article_hash)]
        /\ connOpen' = ~dbExists
    /\ UNCHANGED <<dbExists, ledger, files, hasOpenAI, ai, mainVars>>

\* mark_article_processed(url, title, get_article_hash(title, url))
MarkFingerprintProcessed ==
    /\ pc = "idle" /\ ai.status # "running"
    /\ \E p \in FingerprintPairs, fault \in WriteFaults :
        LET article_hash == get_article_hash(p.title, p.url)
            out == MarkOutcome(ledger, dbExists, fault, p.url, p.title,
                               article_hash)
        IN
        /\ ledger' = out.rows
        /\ connOpen' = out.connOpen
        /\ call' = [op |-> "mark_article_processed", url |-> p.url,
                    title |-> p.title, hash |-> article_hash,
                    raised |-> out.raised, failed |-> out.failed,
                    existed |-> UrlCount(ledger, p.url) > 0]
    /\ UNCHANGED <<dbExists, files, hasOpenAI, ai, mainVars>>

----------------------------------------------------------------------------
(* The generation functions: one frame per invocation *)

\* Mutant: one attempt more
TitleAttemptsPlusOne == 3 + 1

TitleAttempts == 3
BodyAttempts  == 3
TagAttempts   == 3

\* has_quotes = '"' in original_title or "'" in original_title
HasQuotes(title) == Contains(title, <<DQ>>) \/ Contains(title, <<SQ>>)

\* Mutant: only the double quotes are counted
QuotesOKDoubleOnly(original_title, rewritten_title) ==
    IF Contains(original_title, <<DQ>>) \/ Contains(original_title, <<SQ>>)
    THEN Count(original_title, DQ) = Count(rewritten_title, DQ)
    ELSE Count(rewritten_title, DQ) = 0

\* The quotation-mark validation of rewrite_title_with_ai: TRUE when the
\* candidate is not sent to a retry by it
QuotesOK(original_title, rewritten_title) ==
    IF HasQuotes(original_title)
    THEN ~(\/ Count(original_title, DQ) # Count(rewritten_title, DQ)
           \/ Count(original_title, SQ) # Count(rewritten_title, SQ))
    ELSE ~(Count(rewritten_title, DQ) > 0 \/ Count(rewritten_title, SQ) > 0)

structure_words ==
    { <<"da", "deo", "ni">>, <<"ra", "deo", "ni">>, <<"e", "seo">>,
      <<"deu", "reo", "nan">>, <<"ui">>, <<"ro">>, <<"eu", "ro">>,
      <<"wol", "se", "ro">> }

StructureOf(title) == {word \in structure_words : Contains(title, word)}

\* The structure-word validation, applied only when the original has quotes
StructureOK(original_title, rewritten_title) ==
    HasQuotes(original_title) =>
        StructureOf(original_title) = StructureOf(rewritten_title)

unnatural_patterns ==
    { <<SP, "i", SP, "an">>, <<SP, "ga", SP, "an">>,
      <<SP, "eul", SP, "an">>, <<SP, "reul", SP, "an">> }

NaturalOK(rewritten_title) ==
    ~(\E pattern \in unnatural_patterns : Contains(rewritten_title, pattern))

\* A candidate reaches return rewritten_title
TitleAccepted(original_title, rewritten_title) ==
    /\ QuotesOK(original_title, rewritten_title)
    /\ StructureOK(original_title, rewritten_title)
    /\ NaturalOK(rewritten_title)

RECURSIVE ReplaceAll(_, _, _)
\* str.replace(old, new), left to right, non-overlapping
ReplaceAll(s, old, new) ==
    IF Len(s) < Len(old) THEN s
    ELSE IF SubSeq(s, 1, Len(old)) = old
         THEN new \o ReplaceAll(SubSeq(s, Len(old) + 1, Len(s)), old, new)
         ELSE <<Head(s)>> \o ReplaceAll(Tail(s), old, new)

BT == "BACKTICK"
EM == "EMDASH"

\* rewrite_with_ai: the three-backtick fence is removed, '---' becomes a dash
CleanBody(text) ==
    ReplaceAll(ReplaceAll(text, <<BT, BT, BT>>, <<>>), <<HY, HY, HY>>, <<EM>>)

default_tags == <<"news", "issue">>
DefaultAlt == <<"alt", "default">>
DefaultAdditionalNoKey == <<"additional", "nokey">>
DefaultAdditionalError == <<"additional", "error">>

\* What one call of client.chat.completions.create can give
ApiError == [kind |-> "error"]
Text(t)  == [kind |-> "text", text |-> t]

NoFrame ==
    [fn |-> "none", caller |-> "none", api_key |-> FALSE, original |-> <<>>,
     attempt |-> 0, apiCalls |-> 0, slept |-> TRUE, resp |-> [kind |-> "none"],
     status |-> "none", value |-> <<>>]

NewFrame(fn, caller, api_key, original) ==
    [fn |-> fn, caller |-> caller, api_key |-> api_key, original |-> original,
     attempt |-> 0, apiCalls |-> 0, slept |-> TRUE, resp |-> [kind |-> "none"],
     status |-> "running", value |-> <<>>]

Return(f, v) == [f EXCEPT !.status = "returned", !.value = v]
Raise(f)     == [f EXCEPT !.status = "raised", !.value = <<>>]

\* The frame after the API call of this attempt was issued and answered;
\* slept tells whether a time.sleep was taken since the last API call
Called(f, out) ==
    [f EXCEPT !.apiCalls = @ + 1, !.resp = out, !.slept = FALSE]

\* ---- rewrite_title_with_ai ----

\* if not api_key: return original_title
StartTitle(caller, api_key, original_title) ==
    LET f == NewFrame("title", caller, api_key, original_title) IN
    IF ~api_key THEN Return(f, original_title) ELSE f

\* Mutant: after the last attempt the last answer is returned, not the original
TitleNextKeepsAnswer(f) ==
    IF f.attempt + 1 < TitleAttempts
    THEN [f EXCEPT !.attempt = @ + 1]
    ELSE [f EXCEPT !.attempt = @ + 1, !.status = "returned",
                   !.value = IF f.resp.kind = "text" THEN Strip(f.resp.text)
                             ELSE f.original]

\* The end of one iteration that did not return: the next attempt, or, after
\* the last one, the statement after the loop (return original_title)
TitleNext(f) ==
    IF f.attempt + 1 < TitleAttempts
    THEN [f EXCEPT !.attempt = @ + 1]
    ELSE Return([f EXCEPT !.attempt = @ + 1], f.original)

\* One iteration of for attempt in range(3); out is what the API call gives
TitleAttempt(f, out, available) ==
    IF ~available THEN Return(f, f.original)
    ELSE LET g == Called(f, out) IN
         IF out.kind = "error" THEN TitleNext(g)
         ELSE LET rewritten_title == Strip(out.text) IN
              IF TitleAccepted(f.original, rewritten_title)
              THEN Return(g, rewritten_title)
              ELSE TitleNext(g)

\* ---- rewrite_with_ai ----

\* if not api_key: raise Exception(...)
StartBody(caller, api_key, original_content) ==
    LET f == NewFrame("body", caller, api_key, original_content) IN
    IF ~api_key THEN Raise(f) ELSE f

\* Mutant: after the last failed attempt the input is handed back
BodyAttemptFallback(f, out, available) ==
    IF ~available
    THEN IF f.attempt + 1 < BodyAttempts
         THEN [f EXCEPT !.attempt = @ + 1]
         ELSE Raise([f EXCEPT !.attempt = @ + 1])
    ELSE LET g == Called(f, out) IN
         IF out.kind = "error"
         THEN IF f.attempt < BodyAttempts - 1
              THEN [g EXCEPT !.attempt = @ + 1, !.slept = TRUE]
              ELSE Return([g EXCEPT !.attempt = @ + 1], f.original)
         ELSE Return(g, CleanBody(Strip(out.text)))

\* One iteration.  Without the client nothing is called and the iteration
\* ends; after the last one the function raises "unexpected end of function".
BodyAttempt(f, out, available) ==
    IF ~available
    THEN IF f.attempt + 1 < BodyAttempts
         THEN [f EXCEPT !.attempt = @ + 1]
         ELSE Raise([f EXCEPT !.attempt = @ + 1])
    ELSE LET g == Called(f, out) IN
         IF out.kind = "error"
         THEN IF f.attempt < BodyAttempts - 1
              THEN [g EXCEPT !.attempt = @ + 1, !.slept = TRUE]
              ELSE Raise([g EXCEPT !.attempt = @ + 1])
         ELSE Return(g, CleanBody(Strip(out.text)))

\* ---- generate_ai_tags ----

StartTags(caller, api_key, existing_tags) ==
    LET f == NewFrame("tags", caller, api_key, existing_tags) IN
    IF ~api_key THEN Return(f, existing_tags \o default_tags) ELSE f

\* The iteration fell through (no client, or an unusable answer): next
\* attempt, or the return existing_tags + [...] after the loop
TagsNext(f) ==
    IF f.attempt + 1 < TagAttempts
    THEN [f EXCEPT !.attempt = @ + 1]
    ELSE Return([f EXCEPT !.attempt = @ + 1], f.original \o default_tags)

\* Mutant: the whole answered list is appended, not its first two tags
TagsAttemptWholeList(f, out, available) ==
    IF ~available THEN TagsNext(f)
    ELSE LET g == Called(f, out) IN
         IF out.kind = "error"
         THEN IF f.attempt < TagAttempts - 1
              THEN [g EXCEPT !.attempt = @ + 1, !.slept = TRUE]
              ELSE Return([g EXCEPT !.attempt = @ + 1], f.original \o default_tags)
         ELSE IF out.kind = "list" /\ Len(out.tags) >= 2
              THEN Return(g, f.original \o out.tags)
              ELSE TagsNext(g)

\* out is an error, or the answer as json.loads reads it: a list
\* ("list"), another JSON value ("notlist") or no JSON at all ("badjson")
TagsAttempt(f, out, available) ==
    IF ~available THEN TagsNext(f)
    ELSE LET g == Called(f, out) IN
         IF out.kind = "error"
         THEN IF f.attempt < TagAttempts - 1
              THEN [g EXCEPT !.attempt = @ + 1, !.slept = TRUE]
              ELSE Return([g EXCEPT !.attempt = @ + 1], f.original \o default_tags)
         ELSE IF out.kind = "list" /\ Len(out.tags) >= 2
              THEN Return(g, f.original \o Take(out.tags, 2))
              ELSE TagsNext(g)

\* ---- generate_contextual_alt_text ----

StartAlt(caller, api_key) ==
    LET f == NewFrame("alt", caller, api_key, <<>>) IN
    IF ~api_key THEN Return(f, DefaultAlt) ELSE f

\* alt_text.strip('"').strip("'").strip()
CleanAlt(text) ==
    Strip(RStrip(LStrip(RStrip(LStrip(Strip(text), {DQ}), {DQ}), {SQ}), {SQ}))

AltAttempt(f, out, available) ==
    IF ~available THEN Return([f EXCEPT !.attempt = 1], DefaultAlt)
    ELSE LET g == [Called(f, out) EXCEPT !.attempt = 1] IN
         IF out.kind = "error" THEN Return(g, DefaultAlt)
         ELSE LET alt_text == CleanAlt(out.text) IN
              Return(g, IF alt_text # <<>> THEN alt_text ELSE DefaultAlt)

\* ---- generate_additional_content ----

StartAdditional(caller, api_key) ==
    LET f == NewFrame("additional", caller, api_key, <<>>) IN
    IF ~api_key THEN Return(f, DefaultAdditionalNoKey) ELSE f

\* Without the client the try block ends without a return: the function
\* returns None
NoneValue == <<"None">>

AdditionalAttempt(f, out, available) ==
    IF ~available THEN Return([f EXCEPT !.attempt = 1], NoneValue)
    ELSE LET g == [Called(f, out) EXCEPT !.attempt = 1] IN
         IF out.kind = "error" THEN Return(g, DefaultAdditionalError)
         ELSE Return(g, Strip(out.text))

----------------------------------------------------------------------------
(* Invocations of the generation functions and their steps *)

\* Titles a scrape can give (stripped, never empty)
ScrapedTitles ==
    { <<"a">>, <<DQ, "a", DQ>>, <<DQ, "a", DQ, "ui">> }

\* safe_filename[:50] in main(), safe_title[:50] in the converter
SlugCap == 50

\* A title longer than the cap of the file name
LongTitle == [k \in 1..(SlugCap + 2) |-> "a"]

\* Raw answers of the title call
TitleResponses ==
    { <<"b">>, <<SP, "b">>, <<"a">>, <<SP>>, <<"b", SP, "i", SP, "an">>,
      <<DQ, "b", DQ>>, <<DQ, "b">>, <<SQ, "b", SQ>>, <<DQ, "a", DQ>>,
      <<DQ, "b", DQ, "ui">>, <<DQ, "a", DQ, "ro">>, LongTitle }

ScrapedContents == { <<"c">> }

BodyResponses ==
    { <<"d">>, <<"c">>, <<SP>>, <<BT, BT, BT, "d", HY, HY, HY>> }

ExistingTags == { <<>>, <<"t">> }

TagResponses ==
    { [kind |-> "list", tags |-> <<"x", "y", "z">>],
      [kind |-> "list", tags |-> <<"x", "y">>],
      [kind |-> "list", tags |-> <<"x">>],
      [kind |-> "notlist"], [kind |-> "badjson"] }

AltResponses == { <<"x">>, <<DQ, "x", DQ>>, <<DQ, SP, DQ>> }

AdditionalResponses == { <<"p">>, <<SP, "p">> }

TitleOutcomes == {ApiError} \cup {Text(t) : t \in TitleResponses}
BodyOutcomes  == {ApiError} \cup {Text(t) : t \in BodyResponses}
TagOutcomes   == {ApiError} \cup TagResponses
AltOutcomes   == {ApiError} \cup {Text(t) : t \in AltResponses}
AdditionalOutcomes == {ApiError} \cup {Text(t) : t \in AdditionalResponses}

Running(fn) == ai.fn = fn /\ ai.status = "running"

\* No function of the module is executing: a caller may enter one
Quiet == pc = "idle" /\ ai.status # "running"

restVars == <<dbExists, ledger, connOpen, files, hasOpenAI, call, mainVars>>

InvokeTitle ==
    /\ Quiet
    /\ \E api_key \in BOOLEAN, original_title \in ScrapedTitles :
        ai' = StartTitle("direct", api_key, original_title)
    /\ UNCHANGED restVars

InvokeBody ==
    /\ Quiet
    /\ \E api_key \in BOOLEAN, original_content \in ScrapedContents :
        ai' = StartBody("direct", api_key, original_content)
    /\ UNCHANGED restVars

InvokeTags ==
    /\ Quiet
    /\ \E api_key \in BOOLEAN, existing_tags \in ExistingTags :
        ai' = StartTags("direct", api_key, existing_tags)
    /\ UNCHANGED restVars

InvokeAlt ==
    /\ Quiet
    /\ \E api_key \in BOOLEAN : ai' = StartAlt("direct", api_key)
    /\ UNCHANGED restVars

InvokeAdditional ==
    /\ Quiet
    /\ \E api_key \in BOOLEAN : ai' = StartAdditional("direct", api_key)
    /\ UNCHANGED restVars

\* A call made directly is also given an answer that has a structure word
\* and no quotation mark; the calls of main() draw from TitleOutcomes alone
TitleOutcomesOf(caller) ==
    IF caller = "direct" THEN TitleOutcomes \cup {Text(<<"b", "ui">>)}
    ELSE TitleOutcomes

TitleStep ==
    /\ Running("title")
    /\ \E out \in TitleOutcomesOf(ai.caller) :
         ai' = TitleAttempt(ai, out, hasOpenAI)
    /\ UNCHANGED restVars

\* The API answers the title request with the one word index
TitleStepIndex ==
    /\ Running("title")
    /\ ai' = TitleAttempt(ai, Text(<<"index">>), hasOpenAI)
    /\ UNCHANGED restVars

BodyStep ==
    /\ Running("body")
    /\ \E out \in BodyOutcomes : ai' = BodyAttempt(ai, out, hasOpenAI)
    /\ UNCHANGED restVars

TagsStep ==
    /\ Running("tags")
    /\ \E out \in TagOutcomes : ai' = TagsAttempt(ai, out, hasOpenAI)
    /\ UNCHANGED restVars

AltStep ==
    /\ Running("alt")
    /\ \E out \in AltOutcomes : ai' = AltAttempt(ai, out, hasOpenAI)
    /\ UNCHANGED restVars

AdditionalStep ==
    /\ Running("additional")
    /\ \E out \in AdditionalOutcomes : ai' = AdditionalAttempt(ai, out, hasOpenAI)
    /\ UNCHANGED restVars

----------------------------------------------------------------------------
(* categorize_article *)

\* Text is written one symbol per character: a Latin letter is the letter
\* itself, a Hangul syllable its romanisation ("ah" for the syllable a and
\* "yi" for the syllable i, which would otherwise read as Latin letters).

UpperCase ==
    <<"A", "B", "C", "D", "E", "F", "G", "H", "I", "J", "K", "L", "M",
      "N", "O", "P", "Q", "R", "S", "T", "U", "V", "W", "X", "Y", "Z">>

LowerCase ==
    <<"a", "b", "c", "d", "e", "f", "g", "h", "i", "j", "k", "l", "m",
      "n", "o", "p", "q", "r", "s", "t", "u", "v", "w", "x", "y", "z">>

\* str.lower()
Lower(s) ==
    [k \in 1..Len(s) |->
        IF \E n \in 1..Len(UpperCase) : UpperCase[n] = s[k]
        THEN LowerCase[CHOOSE n \in 1..Len(UpperCase) : UpperCase[n] = s[k]]
        ELSE s[k]]

car_keywords ==
    << <<"c", "a", "r">>, <<"a", "u", "t", "o">>,
       <<"v", "e", "h", "i", "c", "l", "e">>, <<"ja", "dong", "cha">>,
       <<"cha", "ryang">>, <<"seung", "yong", "cha">>, <<"teu", "reok">>,
       <<"beo", "seu">>,
       <<"hyeon", "dae">>, <<"gi", "ah">>, <<"sam", "seong">>,
       <<"te", "seul", "ra">>, <<"t", "e", "s", "l", "a">>,
       <<"h", "y", "u", "n", "d", "a", "i">>, <<"k", "i", "a">>,
       <<"jeon", "gi", "cha">>, <<"e", "v">>,
       <<"e", "l", "e", "c", "t", "r", "i", "c">>, <<"su", "so", "cha">>,
       <<"h", "y", "d", "r", "o", "g", "e", "n">>,
       <<"en", "jin">>, <<"mo", "teo">>, <<"bae", "teo", "ri">>,
       <<"chung", "jeon">>, <<"ju", "haeng">>, <<"un", "jeon">>,
       <<"pol", "deu">>, <<"f", "o", "l", "d">>, <<"gael", "reok", "si">>,
       <<"g", "a", "l", "a", "x", "y">>, <<"seu", "ma", "teu", "pon">>,
       <<"s", "m", "a", "r", "t", "p", "h", "o", "n", "e">> >>

economy_keywords ==
    << <<"e", "c", "o", "n", "o", "m", "y">>,
       <<"e", "c", "o", "n", "o", "m", "i", "c">>, <<"gyeong", "je">>,
       <<"geum", "yung">>, <<"tu", "ja">>, <<"ju", "sik">>,
       <<"ko", "seu", "pi">>, <<"jeung", "si">>,
       <<"dal", "reo">>, <<"won", "hwa">>, <<"hwan", "yul">>,
       <<"geum", "ri">>, <<"in", "peul", "re", "yi", "syeon">>,
       <<"mul", "ga">>,
       <<"gi", "eop">>, <<"hoe", "sa">>, <<"mae", "chul">>, <<"yi", "ik">>,
       <<"son", "sil">>, <<"sil", "jeok">>,
       <<"jeong", "chaek">>, <<"jeong", "bu">>, <<"eun", "haeng">>,
       <<"jung", "ang", "eun", "haeng">> >>

\* keyword in title_lower or keyword in content_lower or keyword in all_tags:
\* a substring of the title or of the content, or equal to a whole tag
KeywordHit(keyword, title_lower, content_lower, all_tags) ==
    \/ Contains(title_lower, keyword)
    \/ Contains(content_lower, keyword)
    \/ \E n \in 1..Len(all_tags) : all_tags[n] = keyword

\* sum(1 for keyword in keywords if ...)
KeywordScore(keywords, title, content, tags) ==
    LET title_lower == Lower(title)
        content_lower == Lower(content)
        all_tags == [n \in 1..Len(tags) |-> Lower(tags[n])]
        F[k \in 0..Len(keywords)] ==
            IF k = 0 THEN 0
            ELSE F[k - 1] +
                 (IF KeywordHit(keywords[k], title_lower, content_lower, all_tags)
                  THEN 1 ELSE 0)
    IN F[Len(keywords)]

\* Mutant: a tie goes to the second list
categorize_article_strict(title, content, tags) ==
    IF KeywordScore(car_keywords, title, content, tags)
           > KeywordScore(economy_keywords, title, content, tags)
    THEN "automotive"
    ELSE "economy"

categorize_article(title, content, tags) ==
    IF KeywordScore(car_keywords, title, content, tags)
           >= KeywordScore(economy_keywords, title, content, tags)
    THEN "automotive"
    ELSE "economy"

\* Arguments of the calls checked.  The function reads nothing but its
\* arguments, so each call is made from the state in which none was made.
CatTitles ==
    { <<>>, <<"x">>, <<"K", "i", "a">>, <<"gyeong", "je">>,
      <<"T", "e", "s", "l", "a", SP, "tu", "ja">>,
      <<"jung", "ang", "eun", "haeng">> }

CatContents ==
    { <<>>, <<"c", "a", "r">>, <<"geum", "ri">>, <<"e", "v">>,
      <<"ju", "sik", SP, "hwan", "yul">> }

CatTags ==
    { <<>>, << <<"n", "e", "w", "s">> >>, << <<"E", "V">> >>,
      << <<"geum", "yung">>, <<"e", "v", "s">> >> }

CategorizeArticle ==
    /\ Quiet
    /\ call = NoCall
    /\ \E title \in CatTitles, content \in CatContents, tags \in CatTags :
        call' = [op |-> "categorize_article", title |-> title,
                 content |-> content, tags |-> tags,
                 result |-> categorize_article(title, content, tags)]
    /\ UNCHANGED <<dbExists, ledger, connOpen, files, hasOpenAI, ai, mainVars>>

----------------------------------------------------------------------------
(* main() *)

MaxUploads == 5

PAGE == "/page/"

\* '/entry/' in url
HasEntry(url) == Contains(url, <<ENTRY>>)

\* A sitemap is its text: a sequence of lines, each a sequence of tokens.  A
\* token is a tag or one symbol of text.  The root tag with xmlns declares
\* the sitemap namespace as the default one; the root tag without it
\* declares none.
OpenTags  == {"<urlset xmlns>", "<urlset>", "<url>", "<loc>"}
CloseTags == {"</urlset>", "</url>", "</loc>"}

IsTag(t) == t \in OpenTags \cup CloseTags

ElementOf(tag) ==
    IF tag \in {"<urlset xmlns>", "<urlset>", "</urlset>"} THEN "urlset"
    ELSE IF tag \in {"<url>", "</url>"} THEN "url"
    ELSE "loc"

RECURSIVE Flatten(_)
Flatten(lines) ==
    IF lines = <<>> THEN <<>> ELSE Head(lines) \o Flatten(Tail(lines))

\* The text of an element that opens just before tokens: what stands before
\* its first child or its end
RECURSIVE LeadingText(_)
LeadingText(tokens) ==
    IF tokens = <<>> \/ IsTag(Head(tokens)) THEN <<>>
    ELSE <<Head(tokens)>> \o LeadingText(Tail(tokens))

\* ET.fromstring followed by the loop over root.findall('.//url'): ok tells
\* whether the text is one well-formed element; locs are the texts of the
\* first loc child of every url element below the root, in document order
RECURSIVE XmlScan(_, _, _, _)
XmlScan(tokens, stack, closed, locs) ==
    IF tokens = <<>>
    THEN [ok |-> stack = <<>> /\ closed, locs |-> locs]
    ELSE LET t == Head(tokens)
             rest == Tail(tokens)
             depth == Len(stack)
         IN
         IF t \in OpenTags
         THEN IF depth = 0 /\ closed
              THEN [ok |-> FALSE, locs |-> locs]
              ELSE IF /\ ElementOf(t) = "loc"
                      /\ depth >= 2
                      /\ stack[depth].name = "url"
                      /\ ~stack[depth].hasLoc
                   THEN XmlScan(rest,
                                Append([stack EXCEPT ![depth].hasLoc = TRUE],
                                       [name |-> "loc", hasLoc |-> FALSE]),
                                closed, Append(locs, LeadingText(rest)))
                   ELSE XmlScan(rest,
                                Append(stack, [name |-> ElementOf(t),
                                               hasLoc |-> FALSE]),
                                closed, locs)
         ELSE IF t \in CloseTags
         THEN IF depth = 0 \/ stack[depth].name # ElementOf(t)
              THEN [ok |-> FALSE, locs |-> locs]
              ELSE XmlScan(rest, SubSeq(stack, 1, depth - 1), depth = 1, locs)
         ELSE IF depth = 0
              THEN [ok |-> FALSE, locs |-> locs]
              ELSE XmlScan(rest, stack, closed, locs)

\* findall('.//url', {'': sitemap namespace}) matches url elements of the
\* sitemap namespace only
Namespaced(tokens) == tokens # <<>> /\ Head(tokens) = "<urlset xmlns>"

Find(line, token) ==
    IF \E k \in 1..Len(line) : line[k] = token
    THEN CHOOSE k \in 1..Len(line) :
            line[k] = token /\ \A j \in 1..(k - 1) : line[j] # token
    ELSE 0

\* Mutant: the except branch keeps the URL of every line, entry or not
RECURSIVE LineParseAll(_)
LineParseAll(lines) ==
    IF lines = <<>> THEN <<>>
    ELSE LET line == Head(lines)
             start == Find(line, "<loc>")
             end == Find(line, "</loc>")
             url == SubSeq(line, start + 1, end - 1)
         IN (IF start > 0 /\ end > 0 /\ end > start + 1
             THEN <<url>> ELSE <<>>) \o LineParseAll(Tail(lines))

\* The except branch: of every line, what stands between its first <loc>
\* and its first </loc>, when that is not empty and contains '/entry/'
RECURSIVE LineParse(_)
LineParse(lines) ==
    IF lines = <<>> THEN <<>>
    ELSE LET line == Head(lines)
             start == Find(line, "<loc>")
             end == Find(line, "</loc>")
             url == SubSeq(line, start + 1, end - 1)
         IN (IF start > 0 /\ end > 0 /\ end > start + 1 /\ HasEntry(url)
             THEN <<url>> ELSE <<>>) \o LineParse(Tail(lines))

\* entry_urls of main(): the XML path, or the line parser when parsing raised
ParseEntryUrls(sitemap) ==
    LET tokens == Flatten(sitemap)
        xml == XmlScan(tokens, <<>>, FALSE, <<>>)
        Keep(url) == url # <<>> /\ HasEntry(url)
    IN IF xml.ok
       THEN IF Namespaced(tokens) THEN SelectSeq(xml.locs, Keep) ELSE <<>>
       ELSE LineParse(sitemap)

UrlElement(url) == <<"<url>", "<loc>">> \o url \o <<"</loc>", "</url>">>

\* A sitemap text with the given loc texts: the root with or without the
\* namespace declaration, closed or cut off before its end tag, one element
\* per line or everything on one line
SitemapText(locs, xmlns, closed, oneLine) ==
    LET parts == << <<IF xmlns THEN "<urlset xmlns>" ELSE "<urlset>">> >>
                 \o [k \in 1..Len(locs) |-> UrlElement(locs[k])]
                 \o (IF closed THEN << <<"</urlset>">> >> ELSE <<>>)
    IN IF oneLine THEN << Flatten(parts) >> ELSE parts

Sitemaps ==
    { SitemapText(<<>>, TRUE, TRUE, FALSE),
      SitemapText(<< <<ENTRY, "1">> >>, TRUE, TRUE, FALSE),
      SitemapText(<< <<PAGE, "1">>, <<ENTRY, "1">>, <<ENTRY, "2">> >>,
                  TRUE, TRUE, FALSE) }

\* TistorySitemapConverter.parse_sitemap_urls: the same two paths, each URL
\* in a record with its lastmod (the texts checked have no lastmod element)
parse_sitemap_urls(sitemap_content) ==
    LET tokens == Flatten(sitemap_content)
        xml == XmlScan(tokens, <<>>, FALSE, <<>>)
        Keep(url) == url # <<>> /\ HasEntry(url)
        found == IF xml.ok
                 THEN IF Namespaced(tokens) THEN SelectSeq(xml.locs, Keep)
                      ELSE <<>>
                 ELSE LineParse(sitemap_content)
    IN [k \in 1..Len(found) |-> [url |-> found[k], lastmod |-> "None"]]

MaxLocs == 3

LocTexts == { <<>>, <<PAGE, "1">>, <<ENTRY, "1">>, <<ENTRY, "2">> }

\* Sitemap texts of up to MaxLocs url elements
SitemapDocs ==
    { SitemapText(locs, xmlns, closed, oneLine) :
        locs \in UNION { [1..n -> LocTexts] : n \in 0..MaxLocs },
        xmlns \in BOOLEAN, closed \in BOOLEAN, oneLine \in BOOLEAN }

\* The URL extraction of main() on a sitemap text
ExtractEntryUrls ==
    /\ Quiet
    /\ call = NoCall
    /\ \E sitemap \in SitemapDocs :
        call' = [op |-> "main.entry_urls", sitemap |-> sitemap,
                 result |-> ParseEntryUrls(sitemap)]
    /\ UNCHANGED <<dbExists, ledger, connOpen, files, hasOpenAI, ai, mainVars>>

ParseSitemapUrls ==
    /\ Quiet
    /\ call = NoCall
    /\ \E sitemap \in SitemapDocs :
        LET urls_found == parse_sitemap_urls(sitemap) IN
        call' = [op |-> "parse_sitemap_urls", sitemap |-> sitemap,
                 result |-> [k \in 1..Len(urls_found) |-> urls_found[k].url]]
    /\ UNCHANGED <<dbExists, ledger, connOpen, files, hasOpenAI, ai, mainVars>>

\* urls = entry_urls[:1], after random.shuffle when there are several
PickUrls(entry_urls) ==
    IF Len(entry_urls) > 1
    THEN { << entry_urls[k] >> : k \in 1..Len(entry_urls) }
    ELSE { Take(entry_urls, 1) }

ScrapedImages == { <<>>, <<"img1", "img2">> }

NoArticle == [ok |-> FALSE, title |-> <<>>, content |-> <<>>, images |-> <<>>]

Articles ==
    { [ok |-> TRUE, title |-> t, content |-> c, images |-> im] :
        t \in ScrapedTitles, c \in ScrapedContents, im \in ScrapedImages }

\* Characters that [^\w\s-] removes
Punctuation == {DQ, SQ, BT, EM}

RECURSIVE RemovePunctuation(_)
RemovePunctuation(s) ==
    IF s = <<>> THEN <<>>
    ELSE IF Head(s) \in Punctuation THEN RemovePunctuation(Tail(s))
         ELSE <<Head(s)>> \o RemovePunctuation(Tail(s))

RECURSIVE CollapseSeparators(_)
\* re.sub(r'[-\s]+', '-', s)
CollapseSeparators(s) ==
    IF s = <<>> THEN <<>>
    ELSE IF Head(s) \in {SP, HY}
         THEN <<HY>> \o CollapseSeparators(LStrip(s, {SP, HY}))
         ELSE <<Head(s)>> \o CollapseSeparators(Tail(s))

\* safe_filename of main(): sanitise, strip('-'), then [:50]
SafeFilename(title) ==
    LET cleaned == CollapseSeparators(RemovePunctuation(title)) IN
    Take(RStrip(LStrip(cleaned, {HY}), {HY}), SlugCap)

HtmlPath(stem, counter) ==
    IF counter = 0 THEN stem \o <<".html">>
    ELSE stem \o <<HY, ToString(counter), ".html">>

\* The path the collision loop ends on: the first free one of
\* stem.html, stem-1.html, stem-2.html, ...
FreeHtmlPath(existing, stem) ==
    LET n == CHOOSE k \in 0..Cardinality(existing) :
                 /\ HtmlPath(stem, k) \notin existing
                 /\ \A j \in 0..(k - 1) : HtmlPath(stem, j) \in existing
    IN HtmlPath(stem, n)

JsonPath  == <<"articles", ".json">>
IndexPath == <<"index", ".html">>

\* The output directory is the set of its files, each with its path and
\* the text it holds
Paths(dir) == {f.path : f \in dir}

\* open(path, 'w') and write: the file holds what was written last
WriteFile(dir, path, content) ==
    {f \in dir : f.path # path} \cup {[path |-> path, content |-> content]}

\* The page of an article: the parts of the template that carry the title
\* and the original URL, the styles, body and scripts as one symbol each
generate_article_html(article) ==
    <<"<head>", "<title>">> \o article.title \o <<"</title>", "</head>",
      "<h1>">> \o article.title \o <<"</h1>", "<div class=content>",
      "<a href=", DQ>> \o article.url \o <<DQ, ">">> \o article.url
      \o <<"</a>", "<script>">>

\* json.dump(articles_data): meta.total_articles and, for every entry of
\* generated_articles in order, its title, file name and original URL
RECURSIVE JsonEntries(_)
JsonEntries(articles) ==
    IF articles = <<>> THEN <<>>
    ELSE <<"{", "title: ">> \o Head(articles).title
           \o <<"filename: ">> \o Head(articles).filename
           \o <<"url: ">> \o Head(articles).url \o <<"}">>
           \o JsonEntries(Tail(articles))

\* Mutant: the manifest lists no article
JsonTextNoEntries(articles) ==
    <<"{", "meta: ", "total_articles: ", ToString(0), "articles: ", "[",
      "]", "}">>

JsonText(articles) ==
    <<"{", "meta: ", "total_articles: ", ToString(Len(articles)),
      "articles: ", "[">> \o JsonEntries(articles) \o <<"]", "}">>

\* The index page: the count of articles and one card per entry, in order,
\* that links the file name and shows the title
RECURSIVE IndexCards(_)
IndexCards(articles_info) ==
    IF articles_info = <<>> THEN <<>>
    ELSE <<"<article>", "<a href=", DQ>> \o Head(articles_info).filename
           \o <<DQ, ">">> \o Head(articles_info).title \o <<"</a>", "</article>">>
           \o IndexCards(Tail(articles_info))

generate_index_html(articles_info) ==
    <<"<index>", "stat-number: ", ToString(Len(articles_info)),
      "<div class=articles-grid>">> \o IndexCards(articles_info) \o <<"</div>">>

Hosted(image_url) == <<"cf", image_url>>

\* What one call of upload_to_cloudflare_images can meet: the download
\* raises, the upload raises, the answer says success is false, the answer
\* lacks the image id, or all is well
UploadOutcomes ==
    {"download_error", "upload_error", "not_success", "no_image_id", "ok"}

None == <<>>

\* upload_to_cloudflare_images: the whole body is in try/except Exception
upload_to_cloudflare_images(image_url, outcome) ==
    [raised |-> FALSE,
     value  |-> IF outcome = "ok" THEN Hosted(image_url) ELSE None]

\* Mutant: every image of the article is uploaded, not the first five
UploadAllNoCap(images, succeeded) ==
    LET F[k \in 0..Len(images)] ==
            IF k = 0 THEN <<>>
            ELSE IF k \in succeeded THEN Append(F[k - 1], Hosted(images[k]))
                 ELSE F[k - 1]
    IN F[Len(images)]

\* cloudflare_images: the hosted URL of every upload that succeeded, in the
\* order of article_data['images'][:5]
UploadAll(images, succeeded) ==
    LET first == Take(images, MaxUploads)
        F[k \in 0..Len(first)] ==
            IF k = 0 THEN <<>>
            ELSE IF k \in succeeded THEN Append(F[k - 1], Hosted(first[k]))
                 ELSE F[k - 1]
    IN F[Len(first)]

article_tags == <<"news", "issue", "AI", "auto">>

\* The upload block of main(): nothing is uploaded without a token or
\* without images
CloudflareImages(cf_token, images, succeeded) ==
    IF cf_token /\ images # <<>> THEN UploadAll(images, succeeded) ELSE <<>>

\* Image lists of an article: none, two, and one more than the cap
ManyImages == [k \in 1..(MaxUploads + 1) |-> ToString(k)]
ImageLists == { <<>>, <<"img1", "img2">>, ManyImages }

\* One call of upload_to_cloudflare_images
UploadToCloudflare ==
    /\ Quiet
    /\ call = NoCall
    /\ \E image_url \in {"img1", "img2"}, outcome \in UploadOutcomes :
        LET r == upload_to_cloudflare_images(image_url, outcome)
        IN call' = [op |-> "upload_to_cloudflare_images", image |-> image_url,
                    outcome |-> outcome, raised |-> r.raised,
                    result |-> r.value]
    /\ UNCHANGED <<dbExists, ledger, connOpen, files, hasOpenAI, ai, pc, run,
                   env, urls, i, article_data, new_title, rewritten_content,
                   processed, skipped, failed, generated_articles, exitCode,
                   hist>>

\* The upload block of main() on one list of images
UploadImages ==
    /\ Quiet
    /\ call = NoCall
    /\ \E cf_token \in BOOLEAN, images \in ImageLists :
        \E succeeded \in SUBSET (1..Len(images)) :
            call' = [op |-> "main.cloudflare_images", cf_token |-> cf_token,
                     images |-> images, succeeded |-> succeeded,
                     result |-> CloudflareImages(cf_token, images, succeeded)]
    /\ UNCHANGED <<dbExists, ledger, connOpen, files, hasOpenAI, ai, pc, run,
                   env, urls, i, article_data, new_title, rewritten_content,
                   processed, skipped, failed, generated_articles, exitCode,
                   hist>>


NoHist == [prev |-> {}, files0 |-> {}, log |-> <<>>]

\* The pause at the end of an iteration that did not leave by continue:
\* five seconds when the running count of written articles is a positive
\* multiple of ten, else one to two seconds
LongPauseEvery == 10

EndPause(count) ==
    IF count > 0 /\ count % LongPauseEvery = 0 THEN "5s" ELSE "1-2s"

\* The pause one iteration ends with; a skipped URL leaves by continue
PauseOf(outcome) ==
    CASE outcome = "skipped"   -> "none"
      [] outcome = "processed" -> EndPause(processed + 1)
      [] OTHER                 -> EndPause(processed)

Logged(outcome) ==
    [hist EXCEPT !.log = Append(@, [url |-> urls[i + 1], outcome |-> outcome,
                                    pause |-> PauseOf(outcome)])]

\* main() up to the loop: init_processed_db, the sitemap download, the URL list
MainStart ==
    /\ Quiet
    /\ run < MaxRuns
    /\ run' = run + 1
    /\ dbExists' = TRUE
    /\ connOpen' = FALSE
    /\ call' = NoCall
    /\ ai' = NoFrame
    /\ \E api_key \in BOOLEAN, cf_token \in BOOLEAN :
        env' = [api_key |-> api_key, cf_token |-> cf_token]
    /\ hist' = [hist EXCEPT !.files0 = files, !.log = <<>>]
    /\ \/ \* requests.get raised: sys.exit(1)
          /\ pc' = "exited"
          /\ exitCode' = 1
          /\ urls' = <<>>
       \/ \E sitemap \in Sitemaps :
            /\ urls' \in PickUrls(ParseEntryUrls(sitemap))
            /\ pc' = "loop"
            /\ exitCode' = "none"
    /\ UNCHANGED <<ledger, files, hasOpenAI, i, article_data, new_title,
                   rewritten_content, processed, skipped, failed,
                   generated_articles>>

\* The URL pre-check at the head of the loop body
UrlProcessed(rows, url) == UrlCount(rows, url) > 0

\* Mutant: the skip is counted but the URL is scraped all the same
MainLoopNoContinue ==
    /\ pc = "loop"
    /\ IF i >= Len(urls)
       THEN /\ pc' = "summary"
            /\ UNCHANGED <<i, skipped, hist>>
       ELSE IF UrlProcessed(ledger, urls[i + 1])
            THEN \* skipped += 1; continue
                 /\ skipped' = skipped + 1
                 /\ i' = i
                 /\ pc' = "scrape"
                 /\ hist' = hist
            ELSE /\ pc' = "scrape"
                 /\ UNCHANGED <<i, skipped, hist>>
    /\ UNCHANGED <<dbExists, ledger, connOpen, files, hasOpenAI, call, ai, run,
                   env, urls, article_data, new_title, rewritten_content,
                   processed, failed, generated_articles, exitCode>>

MainLoop ==
    /\ pc = "loop"
    /\ IF i >= Len(urls)
       THEN /\ pc' = "summary"
            /\ UNCHANGED <<i, skipped, hist>>
       ELSE IF UrlProcessed(ledger, urls[i + 1])
            THEN \* skipped += 1; continue
                 /\ skipped' = skipped + 1
                 /\ i' = i + 1
                 /\ pc' = "loop"
                 /\ hist' = Logged("skipped")
            ELSE /\ pc' = "scrape"
                 /\ UNCHANGED <<i, skipped, hist>>
    /\ UNCHANGED <<dbExists, ledger, connOpen, files, hasOpenAI, call, ai, run,
                   env, urls, article_data, new_title, rewritten_content,
                   processed, failed, generated_articles, exitCode>>

\* extract_content_from_url, then the branch on article_data and ai_api_key
MainScrape ==
    /\ pc = "scrape"
    /\ \E result \in {NoArticle} \cup Articles :
        /\ article_data' = result
        /\ IF result.ok /\ env.api_key
           THEN /\ ai' = StartTitle("main", env.api_key, result.title)
                /\ pc' = "title"
                /\ UNCHANGED <<i, failed, hist>>
           ELSE /\ failed' = failed + 1
                /\ i' = i + 1
                /\ pc' = "loop"
                /\ hist' = Logged("failed")
                /\ ai' = ai
    /\ UNCHANGED <<dbExists, ledger, connOpen, files, hasOpenAI, call, run, env,
                   urls, new_title, rewritten_content, processed, skipped,
                   generated_articles, exitCode>>

\* if new_title and new_title != article_data['title']
TitleUsable(title, original_title) == title # <<>> /\ title # original_title

\* rewrite_title_with_ai returned to main()
MainTitle ==
    /\ pc = "title"
    /\ ai.status = "returned"
    /\ new_title' = ai.value
    /\ IF TitleUsable(ai.value, article_data.title)
       THEN /\ ai' = StartBody("main", env.api_key, article_data.content)
            /\ pc' = "body"
            /\ UNCHANGED <<i, failed, hist>>
       ELSE /\ failed' = failed + 1
            /\ i' = i + 1
            /\ pc' = "loop"
            /\ hist' = Logged("failed")
            /\ ai' = NoFrame
    /\ UNCHANGED <<dbExists, ledger, connOpen, files, hasOpenAI, call, run, env,
                   urls, article_data, rewritten_content, processed, skipped,
                   generated_articles, exitCode>>

\* rewrite_with_ai returned to main() or raised into its except clause
MainBody ==
    /\ pc = "body"
    /\ ai.status \in {"returned", "raised"}
    /\ ai' = NoFrame
    /\ IF /\ ai.status = "returned"
          /\ ai.value # <<>>
          /\ ai.value # article_data.content
       THEN /\ rewritten_content' = ai.value
            /\ pc' = "publish"
            /\ UNCHANGED <<i, failed, hist>>
       ELSE /\ rewritten_content' = IF ai.status = "returned" THEN ai.value
                                    ELSE rewritten_content
            /\ failed' = failed + 1
            /\ i' = i + 1
            /\ pc' = "loop"
            /\ hist' = Logged("failed")
    /\ UNCHANGED <<dbExists, ledger, connOpen, files, hasOpenAI, call, run, env,
                   urls, article_data, new_title, processed, skipped,
                   generated_articles, exitCode>>

\* Mutant: the article is counted as processed before the write of its
\* document is tried
MainPublishCountedFirst ==
    /\ pc = "publish"
    /\ \E succeeded \in SUBSET (1..Len(Take(article_data.images, MaxUploads))),
          written \in BOOLEAN :
        LET cloudflare_images ==
                CloudflareImages(env.cf_token, article_data.images, succeeded)
            html_content ==
                generate_article_html([title |-> new_title, url |-> urls[i + 1]])
            html_filepath == FreeHtmlPath(Paths(files), SafeFilename(new_title))
        IN
        IF written
        THEN /\ files' = WriteFile(files, html_filepath, html_content)
             /\ processed' = processed + 1
             /\ generated_articles' = Append(generated_articles,
                    [title |-> new_title, filename |-> html_filepath,
                     tags |-> article_tags,
                     thumbnail |-> IF cloudflare_images # <<>>
                                   THEN cloudflare_images[1] ELSE <<>>,
                     url |-> urls[i + 1]])
             /\ hist' = Logged("processed")
             /\ UNCHANGED failed
        ELSE /\ processed' = processed + 1
             /\ hist' = Logged("failed")
             /\ UNCHANGED <<files, failed, generated_articles>>
    /\ i' = i + 1
    /\ pc' = "loop"
    /\ UNCHANGED <<dbExists, ledger, connOpen, hasOpenAI, call, ai, run, env,
                   urls, article_data, new_title, rewritten_content, skipped,
                   exitCode>>

\* The image uploads, generate_article_html and the write of the document
MainPublish ==
    /\ pc = "publish"
    /\ \E succeeded \in SUBSET (1..Len(Take(article_data.images, MaxUploads))),
          written \in BOOLEAN :
        LET cloudflare_images ==
                CloudflareImages(env.cf_token, article_data.images, succeeded)
            html_content ==
                generate_article_html([title |-> new_title, url |-> urls[i + 1]])
            html_filepath == FreeHtmlPath(Paths(files), SafeFilename(new_title))
        IN
        IF written
        THEN /\ files' = WriteFile(files, html_filepath, html_content)
             /\ processed' = processed + 1
             /\ generated_articles' = Append(generated_articles,
                    [title |-> new_title, filename |-> html_filepath,
                     tags |-> article_tags,
                     thumbnail |-> IF cloudflare_images # <<>>
                                   THEN cloudflare_images[1] ELSE <<>>,
                     url |-> urls[i + 1]])
             /\ hist' = Logged("processed")
             /\ UNCHANGED failed
        ELSE /\ failed' = failed + 1
             /\ hist' = Logged("failed")
             /\ UNCHANGED <<files, processed, generated_articles>>
    /\ i' = i + 1
    /\ pc' = "loop"
    /\ UNCHANGED <<dbExists, ledger, connOpen, hasOpenAI, call, ai, run, env,
                   urls, article_data, new_title, rewritten_content, skipped,
                   exitCode>>

\* Mutant: a run with a failed URL ends with status 1
MainSummaryFailing ==
    /\ pc = "summary"
    /\ pc' = "done"
    /\ exitCode' = IF failed > 0 THEN 1 ELSE 0
    /\ IF generated_articles # <<>>
       THEN \/ files' = files
            \/ files' = WriteFile(files, JsonPath, JsonText(generated_articles))
            \/ files' = WriteFile(WriteFile(files, JsonPath,
                                             JsonText(generated_articles)),
                                   IndexPath,
                                   generate_index_html(generated_articles))
       ELSE files' = files
    /\ UNCHANGED <<dbExists, ledger, connOpen, hasOpenAI, call, ai, run, env,
                   urls, i, article_data, new_title, rewritten_content,
                   processed, skipped, failed, generated_articles, hist>>

\* The summary, then articles.json and index.html when something was generated
MainSummary ==
    /\ pc = "summary"
    /\ pc' = "done"
    /\ exitCode' = 0
    /\ IF generated_articles # <<>>
       THEN \/ \* the write of articles.json raised
               files' = files
            \/ \* articles.json written, the write of index.html raised
               files' = WriteFile(files, JsonPath, JsonText(generated_articles))
            \/ files' = WriteFile(WriteFile(files, JsonPath,
                                             JsonText(generated_articles)),
                                   IndexPath,
                                   generate_index_html(generated_articles))
       ELSE files' = files
    /\ UNCHANGED <<dbExists, ledger, connOpen, hasOpenAI, call, ai, run, env,
                   urls, i, article_data, new_title, rewritten_content,
                   processed, skipped, failed, generated_articles, hist>>

----------------------------------------------------------------------------
(* check_existing_articles *)

NL == "NEWLINE"

\* filename.endswith(ext)
EndsWith(path, ext) == path # <<>> /\ path[Len(path)] = ext

\* f'source_url: "{url}"' and f"hash: {article_hash}"
UrlMarker(url) == <<"source_url: ", DQ>> \o url \o <<DQ>>
HashMarker(article_hash) == <<"hash: ", article_hash>>

\* re.search(r'title: "([^"]+)"', content): the places where a match
\* starts, and the group of the leftmost one
TitleMatchStarts(content) ==
    { k \in 1..(Len(content) - 3) :
        /\ content[k] = "title: "
        /\ content[k + 1] = DQ
        /\ content[k + 2] # DQ
        /\ \E m \in (k + 3)..Len(content) : content[m] = DQ }

TitleMatchGroup(content) ==
    LET k == CHOOSE s \in TitleMatchStarts(content) :
                 \A t \in TitleMatchStarts(content) : s <= t
        m == CHOOSE e \in (k + 3)..Len(content) :
                 /\ content[e] = DQ
                 /\ \A j \in (k + 3)..(e - 1) : content[j] # DQ
    IN SubSeq(content, k + 2, m - 1)

\* Characters that [^\w\s] removes
NonWord == Punctuation \cup {HY}

\* re.sub(r'[^\w\s]', '', title.lower()).strip()
NormalizeTitle(title) ==
    LET lowered == Lower(title)
        Kept(c) == c \notin NonWord
    IN Strip(SelectSeq(lowered, Kept))

\* set(text.split())
RECURSIVE WordSet(_)
WordSet(text) ==
    IF text = <<>> THEN {}
    ELSE IF Head(text) = SP THEN WordSet(Tail(text))
    ELSE LET n == IF \E k \in 1..Len(text) : text[k] = SP
                  THEN (CHOOSE k \in 1..Len(text) :
                            text[k] = SP /\ \A j \in 1..(k - 1) : text[j] # SP) - 1
                  ELSE Len(text)
         IN {SubSeq(text, 1, n)} \cup WordSet(SubSeq(text, n + 1, Len(text)))

\* Mutant: a similarity of exactly 0.95 counts as well
SimilarTitlesInclusive(normalized_title, existing_normalized) ==
    LET title_words == WordSet(normalized_title)
        existing_words == WordSet(existing_normalized)
    IN /\ title_words # {}
       /\ existing_words # {}
       /\ 20 * Cardinality(title_words \cap existing_words)
              >= 19 * Cardinality(title_words \cup existing_words)

\* len(a & b) / len(a | b) > 0.95, which holds exactly when
\* 20 * len(a & b) > 19 * len(a | b)
SimilarTitles(normalized_title, existing_normalized) ==
    LET title_words == WordSet(normalized_title)
        existing_words == WordSet(existing_normalized)
    IN /\ title_words # {}
       /\ existing_words # {}
       /\ 20 * Cardinality(title_words \cap existing_words)
              > 19 * Cardinality(title_words \cup existing_words)

\* The three checks on the text of one .md file
FileIsDuplicate(content, article_hash, normalized_title, url) ==
    \/ Contains(content, UrlMarker(url))
    \/ Contains(content, HashMarker(article_hash))
    \/ /\ TitleMatchStarts(content) # {}
       /\ SimilarTitles(normalized_title,
                        NormalizeTitle(TitleMatchGroup(content)))

\* The output directory exists (main() and the converter create it); the
\* walk returns True at the first .md file that passes a check
check_existing_articles(output_dir, article_hash, title, url) ==
    \E f \in output_dir :
        /\ EndsWith(f.path, ".md")
        /\ FileIsDuplicate(f.content, article_hash, NormalizeTitle(title), url)

\* Titles of TitleWords one-symbol words: the word numbered k is ToString(k)
TitleWords == 20

RECURSIVE WordsTitle(_, _)
WordsTitle(from, to) ==
    IF from > to THEN <<>>
    ELSE IF from = to THEN <<ToString(from)>>
    ELSE <<ToString(from), SP>> \o WordsTitle(from + 1, to)

\* A document of the kind check_existing_articles looks for: a .md file
\* whose front matter records the title, the source URL and the hash
MdDoc(stem, title, url, article_hash) ==
    [path    |-> <<stem, ".md">>,
     content |-> <<"---", NL, "title: ", DQ>> \o title
                   \o <<DQ, NL, "source_url: ", DQ>> \o url
                   \o <<DQ, NL, "hash: ", article_hash, NL, "---", NL, "c">>]

Url1 == <<ENTRY, "1">>
Url2 == <<ENTRY, "2">>
Url3 == <<ENTRY, "3">>

\* Output directories seeded with such documents, and with one file that
\* is not a .md file
SeedDocs ==
    { MdDoc("d1", WordsTitle(1, TitleWords), Url1, "h1"),
      MdDoc("d2", <<"b">>, Url2, "h2"),
      MdDoc("d3", <<>>, Url2, "h2"),
      [path |-> <<"d4", ".html">>,
       content |-> MdDoc("d4", <<"x", SP, "y">>, Url3, "h3").content] }

\* Titles to look up: the recorded one, the recorded one in capitals and
\* with punctuation, one word fewer, one word more, one word replaced, and
\* short ones
CheckTitles ==
    { WordsTitle(1, TitleWords),
      <<DQ>> \o WordsTitle(1, TitleWords) \o <<EM, SP>>,
      WordsTitle(1, TitleWords - 1),
      WordsTitle(1, TitleWords + 1),
      WordsTitle(2, TitleWords + 1),
      <<"B">>, <<"b", SP, "c">>, <<"x", SP, "y">>, <<EM>> }

CheckUrls == {Url1, Url2, Url3}
CheckHashes == {"h1", "h2", "h3"}

\* A call of check_existing_articles on the output directory
CheckExistingArticles ==
    /\ Quiet
    /\ call = NoCall
    /\ \E article_hash \in CheckHashes, title \in CheckTitles, url \in CheckUrls :
        call' = [op     |-> "check_existing_articles",
                 hash   |-> article_hash,
                 title  |-> title,
                 url    |-> url,
                 result |-> check_existing_articles(files, article_hash,
                                                    title, url)]
    /\ UNCHANGED <<dbExists, ledger, connOpen, files, hasOpenAI, ai, pc, run,
                   env, urls, i, article_data, new_title, rewritten_content,
                   processed, skipped, failed, generated_articles, exitCode,
                   hist>>

----------------------------------------------------------------------------
(* TistorySitemapConverter.process_all_posts *)

\* Titles extract_tistory_content can give
ConvTitles ==
    { <<"a">>, <<"a", SP, DQ, "b", DQ>>, <<EM>>, LongTitle, <<"index">> }

ConvPosts ==
    { [ok |-> TRUE, title |-> t, content |-> <<"c">>, images |-> <<>>] :
        t \in ConvTitles }

\* filename of create_tistory_optimized_html: sanitise, [:50], + '.html'
ConvFilename(title) ==
    Take(CollapseSeparators(RemovePunctuation(title)), SlugCap) \o <<".html">>

\* The page of a post: the parts of the template that carry the title and
\* the URL of the post
create_tistory_optimized_html(post_data, url) ==
    <<"<head>", "<meta og:title content=", DQ>> \o post_data.title
      \o <<DQ, ">", "<meta og:url content=", DQ>> \o url
      \o <<DQ, ">", "<title>">> \o post_data.title \o <<"</title>", "</head>",
      "<h1>">> \o post_data.title \o <<"</h1>", "<a href=", DQ>> \o url
      \o <<DQ, ">", "</a>", "<div class=post-content>">>

\* os.path.splitext(filename)
Splitext(filename) ==
    IF Len(filename) > 1 /\ filename[Len(filename)] = ".html"
    THEN [name |-> SubSeq(filename, 1, Len(filename) - 1), ext |-> <<".html">>]
    ELSE [name |-> filename, ext |-> <<>>]

ConvPath(filename, counter) ==
    IF counter = 0 THEN filename
    ELSE Splitext(filename).name \o <<HY, ToString(counter)>>
             \o Splitext(filename).ext

\* The path the collision loop of process_all_posts ends on
FreeConvPath(existing, filename) ==
    LET n == CHOOSE k \in 0..Cardinality(existing) :
                 /\ ConvPath(filename, k) \notin existing
                 /\ \A j \in 0..(k - 1) : ConvPath(filename, j) \in existing
    IN ConvPath(filename, n)

ArchiveText == <<"<archive>">>

\* process_all_posts up to its loop: fetch_sitemap, parse_sitemap_urls
ConvStart ==
    /\ Quiet
    /\ run < MaxRuns
    /\ run' = run + 1
    /\ call' = NoCall
    /\ ai' = NoFrame
    /\ hist' = [hist EXCEPT !.files0 = files, !.log = <<>>]
    /\ \/ \* fetch_sitemap returned None
          /\ urls' = <<>>
          /\ pc' = "conv_returned"
       \/ \E sitemap \in Sitemaps :
            /\ urls' = parse_sitemap_urls(sitemap)
            /\ pc' = IF urls' = <<>> THEN "conv_returned" ELSE "conv_loop"
    /\ UNCHANGED <<dbExists, ledger, connOpen, files, hasOpenAI, env, i,
                   article_data, new_title, rewritten_content, processed,
                   skipped, failed, generated_articles, exitCode>>

\* Mutant: a post that cannot be scraped or written ends the run
ConvPostAborts ==
    /\ pc = "conv_loop"
    /\ i < Len(urls)
    /\ \E post_data \in {NoArticle} \cup ConvPosts, written \in BOOLEAN :
        LET url == urls[i + 1].url
            filename == ConvFilename(post_data.title)
            filepath == FreeConvPath(Paths(files), filename)
            outcome == IF post_data.ok /\ written THEN "processed" ELSE "failed"
        IN /\ article_data' = post_data
           /\ hist' = [hist EXCEPT
                         !.log = Append(@, [url |-> url, outcome |-> outcome])]
           /\ IF outcome = "processed"
              THEN /\ files' = WriteFile(files, filepath,
                                  create_tistory_optimized_html(post_data, url))
                   /\ processed' = processed + 1
                   /\ pc' = pc
                   /\ exitCode' = exitCode
                   /\ UNCHANGED failed
              ELSE /\ failed' = failed + 1
                   /\ pc' = "conv_raised"
                   /\ exitCode' = 1
                   /\ UNCHANGED <<files, processed>>
    /\ i' = i + 1
    /\ UNCHANGED <<dbExists, ledger, connOpen, hasOpenAI, call, ai, run, env,
                   urls, new_title, rewritten_content, skipped,
                   generated_articles>>

\* One round of the loop: scrape, build the page, find a free path, write
ConvPost ==
    /\ pc = "conv_loop"
    /\ i < Len(urls)
    /\ \E post_data \in {NoArticle} \cup ConvPosts, written \in BOOLEAN :
        LET url == urls[i + 1].url
            filename == ConvFilename(post_data.title)
            filepath == FreeConvPath(Paths(files), filename)
            outcome == IF post_data.ok /\ written THEN "processed" ELSE "failed"
        IN /\ article_data' = post_data
           /\ hist' = [hist EXCEPT
                         !.log = Append(@, [url |-> url, outcome |-> outcome])]
           /\ IF outcome = "processed"
              THEN /\ files' = WriteFile(files, filepath,
                                  create_tistory_optimized_html(post_data, url))
                   /\ processed' = processed + 1
                   /\ UNCHANGED failed
              ELSE /\ failed' = failed + 1
                   /\ UNCHANGED <<files, processed>>
    /\ i' = i + 1
    /\ UNCHANGED <<dbExists, ledger, connOpen, hasOpenAI, call, ai, pc, run,
                   env, urls, new_title, rewritten_content, skipped,
                   generated_articles, exitCode>>

\* After the loop: create_index_html, which writes index.html outside any
\* try, then the summary
ConvIndex ==
    /\ pc = "conv_loop"
    /\ i >= Len(urls)
    /\ \/ /\ files' = WriteFile(files, IndexPath, ArchiveText)
          /\ pc' = "conv_done"
          /\ exitCode' = 0
       \/ \* the write raised: the exception leaves process_all_posts
          /\ files' = files
          /\ pc' = "conv_raised"
          /\ exitCode' = 1
    /\ UNCHANGED <<dbExists, ledger, connOpen, hasOpenAI, call, ai, run, env,
                   urls, i, article_data, new_title, rewritten_content,
                   processed, skipped, failed, generated_articles, hist>>

\* The process ended; its variables are gone, the files stay
MainExit ==
    /\ pc \in {"done", "exited", "conv_returned", "conv_done", "conv_raised"}
    /\ pc' = "idle"
    /\ hist' = [prev   |-> hist.prev \cup
                           {hist.log[k].url : k \in {j \in 1..Len(hist.log) :
                                                  hist.log[j].outcome = "processed"}},
                files0 |-> {},
                log    |-> <<>>]
    /\ env' = [api_key |-> FALSE, cf_token |-> FALSE]
    /\ urls' = <<>>
    /\ i' = 0
    /\ article_data' = NoArticle
    /\ new_title' = <<>>
    /\ rewritten_content' = <<>>
    /\ processed' = 0
    /\ skipped' = 0
    /\ failed' = 0
    /\ generated_articles' = <<>>
    /\ exitCode' = "none"
    /\ UNCHANGED <<dbExists, ledger, connOpen, files, hasOpenAI, call, ai, run>>

----------------------------------------------------------------------------
(* Specifications *)

Init ==
    /\ dbExists = FALSE
    /\ ledger = {}
    /\ connOpen = FALSE
    /\ files = {}
    /\ hasOpenAI \in BOOLEAN
    /\ call = NoCall
    /\ ai = NoFrame
    /\ pc = "idle"
    /\ run = 0
    /\ env = [api_key |-> FALSE, cf_token |-> FALSE]
    /\ urls = <<>>
    /\ i = 0
    /\ article_data = NoArticle
    /\ new_title = <<>>
    /\ rewritten_content = <<>>
    /\ processed = 0
    /\ skipped = 0
    /\ failed = 0
    /\ generated_articles = <<>>
    /\ exitCode = "none"
    /\ hist = NoHist

\* The pipeline: runs of main(), with the ledger functions called between runs
Next ==
    \/ InitProcessedDb
    \/ IsArticleProcessed
    \/ MarkArticleProcessed
    \/ MainStart
    \/ MainLoop
    \/ MainScrape
    \/ TitleStep
    \/ MainTitle
    \/ BodyStep
    \/ MainBody
    \/ MainPublish
    \/ MainSummary
    \/ MainExit

Spec == Init /\ [][Next]_vars

\* The generation functions, each invoked on its own
NextAI ==
    \/ InvokeTitle
    \/ InvokeBody
    \/ InvokeTags
    \/ InvokeAlt
    \/ InvokeAdditional
    \/ TitleStep
    \/ BodyStep
    \/ TagsStep
    \/ AltStep
    \/ AdditionalStep

SpecAI == Init /\ [][NextAI]_vars

\* The ledger functions, called in any order
NextLedger ==
    \/ InitProcessedDb
    \/ IsArticleProcessed
    \/ MarkArticleProcessed

SpecLedger == Init /\ [][NextLedger]_vars

MaxLedgerRuns == 1

\* main() started at most MaxLedgerRuns times
MainStartOnce ==
    /\ run < MaxLedgerRuns
    /\ MainStart

\* The ledger functions called from outside, then main() with its pre-check
NextPrecheck ==
    \/ InitProcessedDb
    \/ IsArticleProcessed
    \/ MarkArticleProcessed
    \/ MainStartOnce
    \/ MainLoop
    \/ MainScrape
    \/ TitleStep
    \/ MainTitle
    \/ BodyStep
    \/ MainBody
    \/ MainPublish
    \/ MainSummary
    \/ MainExit

SpecPrecheck == Init /\ [][NextPrecheck]_vars

\* Runs of main(), with rewrite_with_ai also called directly between runs
NextRewrite ==
    \/ InvokeBody
    \/ MainStart
    \/ MainLoop
    \/ MainScrape
    \/ TitleStep
    \/ MainTitle
    \/ BodyStep
    \/ MainBody
    \/ MainPublish
    \/ MainSummary
    \/ MainExit

SpecRewrite == Init /\ [][NextRewrite]_vars

\* categorize_article called on its own
NextCategorize ==
    \/ CategorizeArticle

SpecCategorize == Init /\ [][NextCategorize]_vars

\* The two sitemap URL extractions, each applied to a sitemap text
NextSitemap ==
    \/ ExtractEntryUrls
    \/ ParseSitemapUrls

SpecSitemap == Init /\ [][NextSitemap]_vars

\* check_existing_articles on output directories that hold .md documents
InitDocs ==
    /\ dbExists = FALSE
    /\ ledger = {}
    /\ connOpen = FALSE
    /\ files \in SUBSET SeedDocs
    /\ hasOpenAI \in BOOLEAN
    /\ call = NoCall
    /\ ai = NoFrame
    /\ pc = "idle"
    /\ run = 0
    /\ env = [api_key |-> FALSE, cf_token |-> FALSE]
    /\ urls = <<>>
    /\ i = 0
    /\ article_data = NoArticle
    /\ new_title = <<>>
    /\ rewritten_content = <<>>
    /\ processed = 0
    /\ skipped = 0
    /\ failed = 0
    /\ generated_articles = <<>>
    /\ exitCode = "none"
    /\ hist = NoHist

NextDuplicates == CheckExistingArticles

SpecDuplicates == InitDocs /\ [][NextDuplicates]_vars

\* A run of the converter, under the same bound as MainStartOnce
ConvStartOnce == run < MaxLedgerRuns /\ ConvStart

\* The two programs that write the output directory, and
\* check_existing_articles on what they wrote
NextOutput ==
    \/ MainStartOnce
    \/ MainLoop
    \/ MainScrape
    \/ TitleStep
    \/ TitleStepIndex
    \/ MainTitle
    \/ BodyStep
    \/ MainBody
    \/ MainPublish
    \/ MainSummary
    \/ MainExit
    \/ ConvStartOnce
    \/ ConvPost
    \/ ConvIndex
    \/ CheckExistingArticles

SpecOutput == Init /\ [][NextOutput]_vars

\* One run of main(), and the upload function and the upload block of
\* main() on their own
NextUpload ==
    \/ UploadToCloudflare
    \/ UploadImages
    \/ MainStartOnce
    \/ MainLoop
    \/ MainScrape
    \/ TitleStep
    \/ MainTitle
    \/ BodyStep
    \/ MainBody
    \/ MainPublish
    \/ MainSummary
    \/ MainExit

SpecUpload == Init /\ [][NextUpload]_vars

\* The ledger functions called with the fingerprint of get_article_hash
NextFingerprint ==
    \/ InitProcessedDb
    \/ IsFingerprintProcessed
    \/ MarkFingerprintProcessed

SpecFingerprint == Init /\ [][NextFingerprint]_vars

----------------------------------------------------------------------------
(* Properties *)

HasUrlRow(rows, url) == \E r \in rows : r.url = url

\* A step that is a call of the named ledger function
LedgerCallStep(op) == call' # call /\ call'.op = op

\* C1: when an earlier run of main() wrote the output document of a URL
\* and the ledger file was kept, a later run given that URL skips it, counts
\* it in skipped and writes no new output file.
C1_SecondRunSkips ==
    (pc = "done" /\ Len(hist.log) = 1 /\ hist.log[1].url \in hist.prev)
        => /\ hist.log[1].outcome = "skipped"
           /\ skipped = 1
           /\ files = hist.files0

\* C2: when main() has handled a URL that had no ledger row (it was not
\* skipped), the ledger holds a row for that URL.
C2_HandledUrlRecorded ==
    pc = "done" =>
        \A k \in 1..Len(hist.log) :
            hist.log[k].outcome # "skipped" => HasUrlRow(ledger, hist.log[k].url)

\* C3: for a URL that has a ledger row, is_article_processed returns true
\* whatever title and hash are passed, the pre-check of main() skips the URL,
\* and neither changes the rows of the ledger.
C3_UrlRowIsDuplicate ==
    [][ /\ (LedgerCallStep("is_article_processed") /\ HasUrlRow(ledger, call'.url))
            => (call'.result = TRUE /\ ~call'.raised /\ ledger' = ledger)
        /\ (pc = "loop" /\ i < Len(urls) /\ HasUrlRow(ledger, urls[i + 1]))
            => /\ pc' = "loop"
               /\ skipped' = skipped + 1
               /\ i' = i + 1
               /\ ledger' = ledger ]_vars

\* C3 witness: the check answered true for a recorded URL although neither
\* the title nor the hash passed is the recorded one.
C3_Witness ==
    /\ call.op = "is_article_processed"
    /\ call.result = TRUE
    /\ \E r \in ledger :
        r.url = call.url /\ r.title # call.title /\ r.hash # call.hash
    /\ \A r \in ledger : r.hash # call.hash

\* C4 as claimed: at most one row per URL, and every mark of a URL that
\* already has a row keeps the row count and leaves the row holding the title
\* and hash of that call.
C4_AsClaimed ==
    [][ /\ \A url \in Urls : Cardinality({r \in ledger' : r.url = url}) <= 1
        /\ (LedgerCallStep("mark_article_processed") /\ HasUrlRow(ledger, call'.url))
            => /\ Cardinality(ledger') = Cardinality(ledger)
               /\ \A r \in ledger' : r.url = call'.url =>
                      (r.title = call'.title /\ r.hash = call'.hash) ]_vars

\* C4 amended: at most one row per URL; a mark of a URL that already has a
\* row keeps the row count, and leaves the row holding the title and hash of
\* that call when the write succeeds and the rows as they were when it fails.
C4_OneRowPerUrl ==
    [][ /\ \A url \in Urls : Cardinality({r \in ledger' : r.url = url}) <= 1
        /\ (LedgerCallStep("mark_article_processed") /\ HasUrlRow(ledger, call'.url))
            => /\ Cardinality(ledger') = Cardinality(ledger)
               /\ ~call'.failed =>
                      \A r \in ledger' : r.url = call'.url =>
                          (r.title = call'.title /\ r.hash = call'.hash)
               /\ call'.failed => ledger' = ledger ]_vars

\* C4 witness: a successful mark replaced the row of a URL, another URL's
\* row standing beside it.
C4_Witness ==
    /\ call.op = "mark_article_processed"
    /\ call.existed
    /\ ~call.failed
    /\ Cardinality(ledger) = 2
    /\ \E r \in ledger :
        r.url = call.url /\ r.title = call.title /\ r.hash = call.hash

\* C5: is_article_processed returns true exactly when some row has the URL
\* passed or some row has the hash passed.
C5_UrlOrHash ==
    call.op = "is_article_processed" =>
        (call.result = TRUE <=>
            \E r \in ledger : r.url = call.url \/ r.hash = call.hash)

\* C5 witness: a hash hit alone, no row having the URL.
C5_Witness ==
    /\ call.op = "is_article_processed"
    /\ call.result = TRUE
    /\ ~HasUrlRow(ledger, call.url)
    /\ \E r \in ledger : r.hash = call.hash

\* C6: a mark_article_processed whose write fails does not raise, leaves the
\* rows as they were and closes the connection.
C6_FailedWriteSwallowed ==
    [][ (LedgerCallStep("mark_article_processed") /\ call'.failed)
            => (~call'.raised /\ ledger' = ledger /\ connOpen' = FALSE) ]_vars

\* C6 witness: a write failed on an existing table that holds rows.
C6_Witness ==
    /\ call.op = "mark_article_processed"
    /\ call.failed
    /\ dbExists
    /\ ledger # {}
    /\ ~HasUrlRow(ledger, call.url)
    /\ ~connOpen

\* C7: one invocation of a generation function issues at most 3 API calls.
C7_AtMostThreeCalls == ai.apiCalls <= 3

\* C7 witness: a title rewrite that ended after three API calls.
C7_Witness ==
    ai.fn = "title" /\ ai.status = "returned" /\ ai.apiCalls = 3

NumQuotes(title, q) == Cardinality({k \in 1..Len(title) : title[k] = q})

\* The candidate's quotation marks as the claim wants them
QuotesMatch(original_title, candidate) ==
    IF NumQuotes(original_title, DQ) + NumQuotes(original_title, SQ) > 0
    THEN /\ NumQuotes(candidate, DQ) = NumQuotes(original_title, DQ)
         /\ NumQuotes(candidate, SQ) = NumQuotes(original_title, SQ)
    ELSE NumQuotes(candidate, DQ) + NumQuotes(candidate, SQ) = 0

\* C8: rewrite_title_with_ai returns no title whose quotation marks do not
\* match the original's, and an answer whose quotation marks do not match is
\* not returned: the next attempt follows, or the fallback after the last.
C8_QuotesPreserved ==
    ai.fn = "title" =>
        /\ ai.status = "returned" => QuotesMatch(ai.original, ai.value)
        /\ (ai.resp.kind = "text" /\ ~QuotesMatch(ai.original, Strip(ai.resp.text)))
            => \/ ai.status = "running" /\ ai.attempt >= 1
               \/ ai.status = "returned" /\ ai.attempt = 3 /\ ai.value = ai.original

\* C8 witness: an answer that dropped a quotation mark of a quoted original
\* sent the function to its second attempt.
C8_Witness ==
    /\ ai.fn = "title"
    /\ ai.status = "running"
    /\ ai.attempt = 1
    /\ NumQuotes(ai.original, DQ) = 2
    /\ ai.resp.kind = "text"
    /\ NumQuotes(ai.resp.text, DQ) = 1

\* C9: rewrite_title_with_ai never raises; what it returns is the original
\* title or the answer of its last API call, stripped, which passed the
\* validations; after three attempts without success it is the original.
C9_ValidOrOriginal ==
    ai.fn = "title" =>
        /\ ai.status # "raised"
        /\ ai.status = "returned" =>
            /\ \/ ai.value = ai.original
               \/ /\ ai.resp.kind = "text"
                  /\ ai.value = Strip(ai.resp.text)
                  /\ QuotesMatch(ai.original, ai.value)
                  /\ StructureOK(ai.original, ai.value)
                  /\ NaturalOK(ai.value)
            /\ ai.attempt = 3 => ai.value = ai.original

\* C9 witness: three attempts, the last one a validation failure, and the
\* original title returned.
C9_Witness ==
    /\ ai.fn = "title"
    /\ ai.status = "returned"
    /\ ai.attempt = 3
    /\ ai.apiCalls = 3
    /\ ai.resp.kind = "text"
    /\ ai.value = ai.original

\* C10: when rewrite_title_with_ai has used its 3 attempts and returned the
\* original title, main() goes on to the body rewrite and counts no failure.
C10_FallbackIsProcessed ==
    [][ ( /\ pc = "title"
          /\ ai.status = "returned"
          /\ ai.attempt = 3
          /\ ai.value = article_data.title
          /\ pc' # "title" )
            => (pc' = "body" /\ failed' = failed) ]_vars

\* What rewrite_with_ai hands back for the answer text of its last API call
BodyOf(f) == CleanBody(Strip(f.resp.text))

\* main() took the result of the body rewrite, which raised or gave back the
\* scraped content
BodyRejectedStep ==
    /\ pc = "body"
    /\ pc' # "body"
    /\ \/ ai.status = "raised"
       \/ ai.status = "returned" /\ ai.value = article_data.content

\* The URL in hand is counted as failed and left with no document written
CountedFailed ==
    /\ failed' = failed + 1
    /\ processed' = processed
    /\ files' = files
    /\ generated_articles' = generated_articles
    /\ i' = i + 1
    /\ pc' = "loop"

\* C11 as claimed: rewrite_with_ai returns only the text of a successful API
\* response, raises only after its 3 attempts are used up, and in main() a
\* raised rewrite or a body equal to the scraped content counts the article
\* as failed and writes no document.
C11_AsClaimed ==
    [][ /\ (ai'.fn = "body" /\ ai'.status = "returned")
            => (ai'.resp.kind = "text" /\ ai'.value = BodyOf(ai'))
        /\ (ai'.fn = "body" /\ ai'.status = "raised")
            => ai'.attempt = BodyAttempts
        /\ BodyRejectedStep => CountedFailed ]_vars

\* C11 amended: rewrite_with_ai returns only the text of a successful API
\* response; it raises at once, before any attempt, when it is called without
\* an API key, and otherwise only after its 3 attempts are used up with no
\* successful response; in main() a raised rewrite or a body equal to the
\* scraped content counts the article as failed and writes no document.
C11_NoFallback ==
    [][ /\ (ai'.fn = "body" /\ ai'.status = "returned")
            => (ai'.resp.kind = "text" /\ ai'.value = BodyOf(ai'))
        /\ (ai'.fn = "body" /\ ai'.status = "raised")
            => \/ ~ai'.api_key /\ ai'.attempt = 0 /\ ai'.apiCalls = 0
               \/ /\ ai'.api_key
                  /\ ai'.attempt = BodyAttempts
                  /\ ai'.resp.kind # "text"
        /\ BodyRejectedStep => CountedFailed ]_vars

\* C11 witness: main() counted a URL as failed, and wrote nothing, after the
\* rewrite gave back the scraped content.
C11_Witness ==
    /\ pc = "loop"
    /\ i = 1
    /\ failed = 1
    /\ processed = 0
    /\ files = hist.files0
    /\ rewritten_content # <<>>
    /\ rewritten_content = article_data.content

\* The answer of the last API call is a JSON list of at least two tags
ValidTagAnswer(f) == f.resp.kind = "list" /\ Len(f.resp.tags) >= 2

\* C12: generate_ai_tags never raises and returns the existing tags, in
\* order, followed by exactly two tags: the first two of a valid answer, or
\* the two default tags when there is no API key or the three attempts are
\* used up without a valid answer (service unavailable, errors, unusable).
C12_ExistingPlusTwo ==
    ai.fn = "tags" =>
        /\ ai.status # "raised"
        /\ ai.status = "returned" =>
            /\ Len(ai.value) = Len(ai.original) + 2
            /\ Take(ai.value, Len(ai.original)) = ai.original
            /\ IF ValidTagAnswer(ai)
               THEN /\ ai.value[Len(ai.original) + 1] = ai.resp.tags[1]
                    /\ ai.value[Len(ai.original) + 2] = ai.resp.tags[2]
               ELSE /\ ai.value = ai.original \o <<"news", "issue">>
                    /\ ~ai.api_key \/ ai.attempt = 3
            /\ (~ai.api_key \/ ai.attempt = 3)
                => ai.value = ai.original \o <<"news", "issue">>

\* C12 witness: an existing tag followed by the first two of three answered
\* tags, on the third API call after two unusable answers.
C12_Witness ==
    /\ ai.fn = "tags"
    /\ ai.status = "returned"
    /\ ai.apiCalls = 3
    /\ ai.original = <<"t">>
    /\ ai.resp.kind = "list"
    /\ Len(ai.resp.tags) = 3
    /\ ai.value = <<"t", "x", "y">>

\* The keywords of a list that occur in the lower-cased title or content or
\* are one of the lower-cased tags
KeywordsHit(keywords, c) ==
    { k \in 1..Len(keywords) :
        \/ Contains(Lower(c.title), keywords[k])
        \/ Contains(Lower(c.content), keywords[k])
        \/ \E n \in 1..Len(c.tags) : Lower(c.tags[n]) = keywords[k] }

\* C13: categorize_article returns one of the two labels for every input:
\* automotive when the first list scores at least as many keywords as the
\* second (ties included), economy only when the second scores strictly more.
C13_TieToFirstList ==
    call.op = "categorize_article" =>
        LET car_score == Cardinality(KeywordsHit(car_keywords, call))
            economy_score == Cardinality(KeywordsHit(economy_keywords, call))
        IN /\ call.result \in {"automotive", "economy"}
           /\ car_score >= economy_score => call.result = "automotive"
           /\ call.result = "economy" => economy_score > car_score

\* C13 witness: a tie of two keywords against two, answered automotive.
C13_Witness ==
    /\ call.op = "categorize_article"
    /\ Cardinality(KeywordsHit(car_keywords, call)) = 2
    /\ Cardinality(KeywordsHit(economy_keywords, call)) = 2
    /\ call.result = "automotive"

\* The texts standing between each <loc> and the </loc> that follows it, in
\* the order of the text
RECURSIVE LocsOf(_)
LocsOf(tokens) ==
    IF tokens = <<>> THEN <<>>
    ELSE IF Head(tokens) = "<loc>"
         THEN <<LeadingText(Tail(tokens))>> \o LocsOf(Tail(tokens))
         ELSE LocsOf(Tail(tokens))

EntryLocs(sitemap) == SelectSeq(LocsOf(Flatten(sitemap)), HasEntry)

\* The root element is closed at the end of the text
RootClosed(sitemap) ==
    LET tokens == Flatten(sitemap) IN tokens[Len(tokens)] = "</urlset>"

\* The root tag declares the sitemap namespace
RootHasXmlns(sitemap) == Flatten(sitemap)[1] = "<urlset xmlns>"

OneLocPerLine(sitemap) ==
    \A n \in 1..Len(sitemap) :
        Cardinality({k \in 1..Len(sitemap[n]) : sitemap[n][k] = "<loc>"}) <= 1

\* The entry URLs among the first <loc> of each line
RECURSIVE FirstEntryLocs(_)
FirstEntryLocs(lines) ==
    IF lines = <<>> THEN <<>>
    ELSE LET first == LocsOf(Head(lines)) IN
         (IF first # <<>> /\ HasEntry(first[1]) THEN <<first[1]>> ELSE <<>>)
             \o FirstEntryLocs(Tail(lines))

FailedStep ==
    /\ Len(hist'.log) = Len(hist.log) + 1
    /\ hist'.log[Len(hist'.log)].outcome = "failed"

C16_FailureEndsOnlyThatUrl ==
    [][ /\ FailedStep =>
            /\ i' = i + 1
            /\ pc' \in {"loop", "conv_loop"}
            /\ pc' = "conv_loop" <=> pc = "conv_loop"
            /\ exitCode' = exitCode
            /\ files' = files
            /\ urls' = urls
        /\ pc' \in {"summary", "done", "conv_done"} =>
            /\ i' = Len(urls')
            /\ Len(hist'.log) = Len(urls')
            /\ processed' + skipped' + failed' = Len(urls') ]_vars

\* A run of the converter that ended with its summary after a URL that
\* failed and a URL that was written
C16_Witness ==
    /\ pc = "conv_done"
    /\ Len(hist.log) = 2
    /\ hist.log[1].outcome = "failed"
    /\ hist.log[2].outcome = "processed"
    /\ failed = 1
    /\ processed = 1

\* Claim C17: main() ends with a status other than 0 only in the step in
\* which the sitemap download fails, and then no URL was handled and no file
\* of the output directory was written; every other run ends after its
\* summary with status 0.
MainPcs ==
    {"loop", "scrape", "title", "body", "publish", "summary", "done", "exited"}

MdFiles == {f \in files : EndsWith(f.path, ".md")}

RecordedTitles ==
    { TitleMatchGroup(f.content) :
        f \in {g \in MdFiles : TitleMatchStarts(g.content) # {}} }

JaccardAbove95(a, b) ==
    /\ a \cup b # {}
    /\ 100 * Cardinality(a \cap b) > 95 * Cardinality(a \cup b)

TitleCriterion ==
    \E recorded \in RecordedTitles :
        JaccardAbove95(WordSet(NormalizeTitle(call.title)),
                       WordSet(NormalizeTitle(recorded)))

MarkerCriterion ==
    \E f \in MdFiles :
        \/ Contains(f.content, UrlMarker(call.url))
        \/ Contains(f.content, HashMarker(call.hash))

WrittenByMainFor(f, url) ==
    Contains(f.content,
             <<"<a href=", DQ>> \o url \o <<DQ, ">">> \o url
                 \o <<"</a>", "<script>">>)

C19_FallbackFindsWrittenDocument ==
    ( /\ call.op = "check_existing_articles"
      /\ \E f \in files : WrittenByMainFor(f, call.url) )
        => call.result = TRUE

\* Claim C20: a step that writes an article document, in main() or in the
\* converter, changes no file that exists: it adds one file, whose path is
\* slug.html when that is free and otherwise slug-k.html for the smallest
\* k = 1, 2, 3, ... whose path does not exist, the slug being at most 50
\* characters of the sanitised title.
ArticleWritten ==
    /\ Len(hist'.log) = Len(hist.log) + 1
    /\ hist'.log[Len(hist'.log)].outcome = "processed"

SlugPath(slug, k) ==
    IF k = 0 THEN slug \o <<".html">>
    ELSE slug \o <<HY, ToString(k), ".html">>

WrittenSlug ==
    IF pc = "publish" THEN SafeFilename(new_title)
    ELSE Take(CollapseSeparators(RemovePunctuation(article_data'.title)),
              SlugCap)

C20_SlugPathWithSmallestSuffix ==
    [][ ArticleWritten =>
          /\ files \subseteq files'
          /\ Cardinality(files' \ files) = 1
          /\ Len(WrittenSlug) <= SlugCap
          /\ \E k \in 0..Cardinality(files) :
                /\ Paths(files') \ Paths(files) = {SlugPath(WrittenSlug, k)}
                /\ \A j \in 0..(k - 1) :
                      SlugPath(WrittenSlug, j) \in Paths(files) ]_vars

\* Claim C21, as claimed: every run of main() that got past the sitemap
\* download ends with articles.json and index.html holding the entries of
\* the documents written during that run.
Occurrences(content, c) ==
    Cardinality({k \in 1..Len(content) : content[k] = c})

JsonLists(content, articles) ==
    /\ Contains(content, <<"total_articles: ", ToString(Len(articles))>>)
    /\ Occurrences(content, "filename: ") = Len(articles)
    /\ \A k \in 1..Len(articles) :
         Contains(content, <<"title: ">> \o articles[k].title
                             \o <<"filename: ">> \o articles[k].filename
                             \o <<"url: ">> \o articles[k].url)

IndexLists(content, articles) ==
    /\ Contains(content, <<"stat-number: ", ToString(Len(articles))>>)
    /\ Occurrences(content, "<article>") = Len(articles)
    /\ \A k \in 1..Len(articles) :
         Contains(content, <<"<a href=", DQ>> \o articles[k].filename
                             \o <<DQ, ">">> \o articles[k].title \o <<"</a>">>)

ManifestWritten(dir, articles) ==
    \E f \in dir : f.path = JsonPath /\ JsonLists(f.content, articles)

IndexWritten(dir, articles) ==
    \E f \in dir : f.path = IndexPath /\ IndexLists(f.content, articles)

OtherFilesKept(paths) ==
    /\ {f \in files : f.path \notin paths} = {f \in files' : f.path \notin paths}
    /\ \A f \in files : f.path \in paths => f.path \in Paths(files')

NextApiCall(fn) ==
    /\ ai.fn = fn
    /\ ai.status = "running"
    /\ ai.apiCalls >= 1
    /\ ai'.apiCalls = ai.apiCalls + 1

C22_SleepBetweenAttempts ==
    [][ \A fn \in {"title", "body", "tags"} : NextApiCall(fn) => ai.slept ]_vars

\* Claim C23: a title that rewrite_title_with_ai accepts, that is, returns
\* as the stripped answer of an API call, holds exactly the structure words
\* of the fixed list that the original title holds, whether or not the
\* original has quotation marks.
StructureWordsIn(title) ==
    { word \in { <<"da", "deo", "ni">>, <<"ra", "deo", "ni">>, <<"e", "seo">>,
                 <<"deu", "reo", "nan">>, <<"ui">>, <<"ro">>, <<"eu", "ro">>,
                 <<"wol", "se", "ro">> } : Contains(title, word) }

C23_SameStructureWords ==
    ( /\ ai.fn = "title"
      /\ ai.status = "returned"
      /\ ai.resp.kind = "text"
      /\ ai.value = Strip(ai.resp.text)
      /\ ai.value # ai.original )
        => StructureWordsIn(ai.value) = StructureWordsIn(ai.original)

\* Claim C24: categorize_article counts a keyword when it occurs, in lower
\* case, as a substring of the title, of the body or of any tag, so that its
\* answer is the label these counts give.
SubstringHits(keywords, c) ==
    { k \in 1..Len(keywords) :
        \/ Contains(Lower(c.title), keywords[k])
        \/ Contains(Lower(c.content), keywords[k])
        \/ \E n \in 1..Len(c.tags) : Contains(Lower(c.tags[n]), keywords[k]) }

C24_SubstringOfTagCounts ==
    call.op = "categorize_article" =>
        call.result =
            IF Cardinality(SubstringHits(car_keywords, call))
                   >= Cardinality(SubstringHits(economy_keywords, call))
            THEN "automotive"
            ELSE "economy"

\* Claim C25: upload_to_cloudflare_images never raises and gives None
\* whenever the download or the upload fails; the list of hosted images of
\* main() holds the URL of every upload that succeeded among the first five
\* images and nothing else, in the order of the images; and the thumbnail of
\* a written article is the first of them or empty, so that an article
\* whose uploads failed is written all the same.
RECURSIVE HostedInOrder(_, _, _)
HostedInOrder(images, succeeded, k) ==
    IF k > Len(images) \/ k > 5 THEN <<>>
    ELSE (IF k \in succeeded THEN << <<"cf", images[k]>> >> ELSE <<>>)
           \o HostedInOrder(images, succeeded, k + 1)

C25_OnlySuccessfulUploads ==
    /\ call.op = "upload_to_cloudflare_images" =>
          /\ ~call.raised
          /\ call.outcome # "ok" => call.result = <<>>
          /\ call.outcome = "ok" => call.result = <<"cf", call.image>>
    /\ call.op = "main.cloudflare_images" =>
          /\ Len(call.result) <= 5
          /\ call.result = IF call.cf_token
                           THEN HostedInOrder(call.images, call.succeeded, 1)
                           ELSE <<>>
    /\ \A k \in 1..Len(generated_articles) :
          LET images == article_data.images
              thumbnail == generated_articles[k].thumbnail
          IN \/ thumbnail = <<>>
             \/ /\ env.cf_token
                /\ \E n \in 1..Len(images) :
                      n <= 5 /\ thumbnail = <<"cf", images[n]>>

\* A run that wrote its article although the upload of its first image,
\* and of the second, failed
C25_Witness ==
    /\ pc = "done"
    /\ processed = 1
    /\ env.cf_token
    /\ article_data.images # <<>>
    /\ generated_articles[1].thumbnail = <<>>
    /\ \E f \in files \ hist.files0 : f.path = generated_articles[1].filename

\* Claim C27: every iteration of the loop of main() adds one to exactly one
\* of processed, skipped and failed, so that the three add up to the number
\* of URLs handled so far; between two ends of iteration the counters stand
\* still; and processed is the one that grows only in a step that wrote the
\* document of the article to a path that was free.
LoopPcs == {"loop", "scrape", "title", "body", "publish"}

DocumentWritten ==
    \E f \in files' :
        /\ f.path \notin Paths(files)
        /\ f.path = generated_articles'[Len(generated_articles')].filename
        /\ f.content = generate_article_html([title |-> new_title,
                                               url |-> urls[i + 1]])

IterationCounts ==
    pc \in LoopPcs =>
        /\ processed + skipped + failed = i
        /\ processed' + skipped' + failed' = i'
        /\ (i' = i + 1) =>
              /\ \/ /\ processed' = processed + 1
                    /\ skipped' = skipped
                    /\ failed' = failed
                 \/ /\ processed' = processed
                    /\ skipped' = skipped + 1
                    /\ failed' = failed
                 \/ /\ processed' = processed
                    /\ skipped' = skipped
                    /\ failed' = failed + 1
              /\ (processed' = processed + 1) => DocumentWritten
        /\ (i' = i) =>
              /\ processed' = processed
              /\ skipped' = skipped
              /\ failed' = failed

C27_OneCounterPerUrl == [][IterationCounts]_vars

\* The one URL of a run was handled, its document is in the output
\* directory, and processed is the counter that moved
C27_Witness ==
    /\ pc = "loop"
    /\ i = 1
    /\ processed = 1
    /\ skipped = 0
    /\ failed = 0
    /\ \E f \in files : f.path = generated_articles[1].filename

\* Claim C28: the iteration of main() that skips a URL as already processed
\* is one step from the head of the loop back to the head of the loop: no
\* scrape (article_data stays), no generation call (the frame of the
\* generation functions stays), no upload and no write (the output
\* directory and the artifact list stay), the ledger stays, processed and
\* failed stay; skipped grows by one and the loop moves to the next URL.
SkipIteration ==
    skipped' > skipped =>
        /\ pc = "loop"
        /\ pc' = "loop"
        /\ UrlProcessed(ledger, urls[i + 1])
        /\ skipped' = skipped + 1
        /\ i' = i + 1
        /\ article_data' = article_data
        /\ ai' = ai
        /\ new_title' = new_title
        /\ rewritten_content' = rewritten_content
        /\ ledger' = ledger
        /\ dbExists' = dbExists
        /\ files' = files
        /\ generated_articles' = generated_articles
        /\ processed' = processed
        /\ failed' = failed
        /\ hist'.log[Len(hist'.log)].pause = "none"

C28_SkipChangesOnlySkipped == [][SkipIteration]_vars

\* The run skipped its URL and goes to its summary with nothing scraped,
\* generated or written
C28_Witness ==
    /\ pc = "summary"
    /\ skipped = 1
    /\ article_data = NoArticle
    /\ ai = NoFrame
    /\ generated_articles = <<>>
    /\ files = hist.files0
    /\ HasUrlRow(ledger, urls[1])

\* Claim C29: the fingerprint is a function of the text title+url alone, so
\* a pair whose title and URL differ from those of a recorded pair but
\* whose concatenation is the same has the fingerprint of the recorded row,
\* and is_article_processed answers true for it, also when its URL has no
\* row in the ledger.
C29_EqualConcatenationIsDuplicate ==
    (call.op = "is_article_processed" /\ ~call.raised) =>
        \A r \in ledger :
            (r.title \o r.url = call.title \o call.url) =>
                /\ r.hash = call.hash
                /\ call.result = TRUE

\* The check answered true for a URL without a row, on the strength of a
\* row with another title and another URL
C29_Witness ==
    /\ call.op = "is_article_processed"
    /\ call.result = TRUE
    /\ UrlCount(ledger, call.url) = 0
    /\ \E r \in ledger :
          /\ r.url # call.url
          /\ r.title # call.title
          /\ r.title \o r.url = call.title \o call.url

\* Claim C30: the step that writes the aggregate files at the end of a run
\* (articles.json and index.html in main(), index.html in the converter)
\* leaves every document written earlier in the same run in the output
\* directory as it was written: no article document has taken the path of
\* an aggregate file.
AggregateStep ==
    \/ pc = "summary" /\ pc' = "done"
    \/ pc = "conv_loop" /\ pc' = "conv_done"

C30Step ==
    AggregateStep => \A f \in files \ hist.files0 : f \in files'

C30_AggregatesKeepArticles == [][C30Step]_vars

====
